---- MODULE Spec2Model ----
(***************************************************************************)
(* jiffy: the scheduling and commit engine of Encoder::encode_videos       *)
(* (src/src/lib.rs).  One run of encode_videos is modelled: the task queue *)
(* of real encode jobs and slow-start wait tasks, the FuturesUnordered     *)
(* pool, the completion flag, the warning channel, every encode job from   *)
(* its first poll to its outcome, the ffmpeg child processes and the       *)
(* output files they and the jobs touch.                                   *)
(*                                                                         *)
(* encode_videos is one future: the tasks in the pool are polled on one    *)
(* thread, so a task runs without interruption from one .await to the      *)
(* next.  Every action below is one such segment.  When a segment ends a   *)
(* task, FuturesUnordered::next() yields it and the body of the            *)
(* `while let` loop (lines 405-428) runs before any other task is polled,  *)
(* so that body is part of the action that ends the task.                  *)
(***************************************************************************)
EXTENDS Integers, Sequences, FiniteSets, Bags, TLC

\* ---------------------------------------------------------------- bounds
MaxFiles == 2      \* most input files discovery returns
MaxJobs  == 2      \* largest value of --jobs
MaxPid   == 1      \* external ffmpeg processes have pids 1..MaxPid

\* ------------------------------------------------------ program constants
MinOutputSize == 300   \* check_encoded_size: size < 300

NoValue == -1          \* Option::None, and "no such file" for a file size
Absent  == NoValue

\* File sizes the filesystem may report (bytes).  The model keeps which
\* files exist; the size of a file is what metadata() answers when it is
\* asked, since ffmpeg and other programs change files at any time.
InSizes  == {0, 400}
OutSizes == {MinOutputSize - 1, MinOutputSize, 400}

ExpectedSizes == {NoValue, 75}
MinimumSizes  == {NoValue, 400}   \* --minimum-size after parse_size, bytes
Limits        == {NoValue, 0, 1, 2}   \* --limit

Pids == 1..MaxPid

\* What num_cpus::get_physical() may report on the machines modelled
CoreCounts == {2, 4}

\* File names.  A name is one character, given by its code: "a" and "b" are
\* letters, the two others are the bytes 0xFE and 0xFF, which are no valid
\* UTF-8.  Every file of the model is a video; the extension its name ends
\* with is the same for all of them and is left out of the name.
NameA    == 1
NameB    == 2
ByteFE   == 8
ByteFF   == 9
Names    == {NameA, NameB, ByteFE, ByteFF}
DirNames == {NameA}               \* the names a directory may have

\* The characters of a path string besides the names: the separator "/"
\* sorts before every letter, U+FFFD after every letter.
Separator   == 0
Replacement == 7

\* The --include and --exclude entries of the model, and the lists of them
\* a command line gives.  No entry names an existing path, so that each is
\* compiled as a glob (lines 846-861).
IncludeSets == {{}, {"*.mp4"}, {"a/*"}, {"a*"}, {"b"}}
ExcludeSets == {{}, {"a/*"}, {"a*"}, {"b"}}

\* The orders read_dir may list a directory in: by byte value, up or down.
Listings == {"up", "down"}

\* The trees under the video root: the root holds files and directories,
\* a directory holds files.  A path is the sequence of its names.
Paths == {<<n>> : n \in Names} \cup {<<d, n>> : d \in DirNames, n \in Names}

Trees ==
    { t \in [dirs : SUBSET DirNames, files : SUBSET Paths] :
        \A f \in t.files :
            IF Len(f) = 1 THEN f[1] \notin t.dirs ELSE f[1] \in t.dirs }

NoTree == [dirs |-> {}, files |-> {}]

\* No helper method is looked at
NoCall == [method |-> "none"]

\* Before get_video_paths is called
NewWalk == [walks |-> 0, listing |-> "up", videos |-> <<>>, prev |-> <<>>]

\* ----------------------------------------------------------------- state
VARIABLES
    cli,                  \* Encoder.cli: the parsed command line
    cores,                \* num_cpus::get_physical()
    main_pc,              \* "init" | "loop" | "done": position of encode_videos
    run_result,           \* "none" | "ok" | "err" | "panic": how encode_videos ended
    task_count,           \* input_files.len()
    tasks_not_started,    \* VecDeque of tasks, front first
    tasks_started,        \* FuturesUnordered: the set of tasks in the pool
    finished_encode_count,
    finished,             \* Encoder.finished, the completion flag
    finished_writes,      \* number of stores made to Encoder.finished
    failures,             \* the mpsc channel: bag of records not yet received
    sent,                 \* every record sent so far on the channel (history)
    summary,              \* the records collected by failures.try_iter()
    drains,               \* number of times the channel was drained
    start_log,            \* sequence of tasks in the order they entered the pool
    outcome,              \* per job: sequence of outcomes the scheduler received
    job,                  \* per job: local state of encode_video_inner
    child,                \* per job: state of its ffmpeg child process
    final_file,           \* per output path: does the final file exist
    partial_file,         \* per output path: does the partial file exist
    wait,                 \* per wait task: local state of wait_for_ffmpeg
    ext,                  \* pids of the ffmpeg processes of other invocations
    pipe,                 \* per job: the stdout pipe of its child, and what
                          \* the job has written to the standard output
    call,                 \* a helper method of Cli or InputFile: the options
                          \* or the path it reads and what it returned
    tree,                 \* the files and directories under the video root
    walk                  \* get_video_paths: its calls and what it returned

vars == <<cli, cores, main_pc, run_result, task_count, tasks_not_started,
          tasks_started, finished_encode_count, finished, finished_writes,
          failures, sent, summary, drains, start_log, outcome, job, child,
          final_file, partial_file, wait, ext, pipe, call, tree, walk>>

sched_vars == <<main_pc, run_result, tasks_not_started, tasks_started,
                finished_encode_count, finished, finished_writes, failures,
                sent, summary, drains, start_log, outcome>>

\* ------------------------------------------------------------- helpers
Max(a, b) == IF a >= b THEN a ELSE b
Min(a, b) == IF a <= b THEN a ELSE b

JobTask(i)  == [kind |-> "job",  id |-> i]
WaitTask(r) == [kind |-> "wait", id |-> r]

\* VecDeque::push_front
PushFront(q, t) == <<t>> \o q

\* f64::round of n / 3 for n >= 0: floor(n/3 + 1/2)
RoundThird(n) == (2 * n + 3) \div 6

\* Cli::get_jobs.  Err is [ok |-> FALSE].
GetJobs(c, ncores) ==
    IF c.jobs = 0 THEN [ok |-> FALSE, val |-> 0]
    ELSE IF c.jobs = NoValue
         THEN IF c.x265
              THEN [ok |-> TRUE, val |-> Max(1, RoundThird(ncores))]
              ELSE [ok |-> TRUE, val |-> Max(1, ncores \div 2)]
         ELSE [ok |-> TRUE, val |-> c.jobs]

\* A record sent on the warning channel.  `by` is the job whose work produced
\* it (not part of the tuple the program sends); `path` says which path the
\* tuple carries; `msg` is the kind of message.
Record(by, path, msg) == [by |-> by, path |-> path, msg |-> msg]

RECURSIVE SendAll(_, _)
\* Sender::send of each element of the sequence rs, in order
SendAll(chan, rs) ==
    IF rs = <<>> THEN chan
    ELSE SendAll(chan (+) SetToBag({Head(rs)}), Tail(rs))



RECURSIVE SeqToSet(_)
SeqToSet(q) == IF q = <<>> THEN {} ELSE {Head(q)} \cup SeqToSet(Tail(q))

\* ------------------------------------------------------------ initial state
\* The command lines clap accepts: --delete-too-large requires
\* --expected-size (lib.rs:169).
CliValues ==
    { c \in [jobs             : {NoValue} \cup (0..MaxJobs),
             x265             : BOOLEAN,
             slow_start       : BOOLEAN,
             overwrite        : BOOLEAN,
             expected_size    : ExpectedSizes,
             delete_too_large : BOOLEAN,
             minimum_size     : MinimumSizes,
             noop             : BOOLEAN,
             no_log           : BOOLEAN,
             limit            : Limits,
             include          : IncludeSets,
             exclude          : ExcludeSets] :
        c.delete_too_large => c.expected_size # NoValue }

\* The command lines of the scheduling model: every value of the options the
\* scheduler reads (--jobs, --x265, --slow-start) and of --overwrite; the
\* options only one job's validation reads are left unset.  --x265 is read
\* only when --jobs is not given (line 261).
SchedulerClis ==
    { c \in CliValues :
        /\ (c.jobs # NoValue) => ~c.x265
        /\ c.expected_size = NoValue
        /\ c.minimum_size = NoValue
        /\ ~c.noop
        /\ ~c.no_log
        /\ c.limit = NoValue
        /\ c.include = {}
        /\ c.exclude = {} }

\* Encoder::new: the state before encode_videos is called.  The number of
\* cores is read only when --jobs is not given (lines 258-268).
Init ==
    /\ cli \in SchedulerClis
    /\ cores \in CoreCounts
    /\ (cli.jobs # NoValue) => \A c \in CoreCounts : cores <= c
    /\ main_pc = "init"
    /\ tree = NoTree
    /\ walk = NewWalk
    /\ pipe = <<>>
    /\ call = NoCall
    /\ run_result = "none"
    /\ task_count = 0
    /\ tasks_not_started = <<>>
    /\ tasks_started = {}
    /\ finished_encode_count = 0
    /\ finished = FALSE
    /\ finished_writes = 0
    /\ failures = EmptyBag
    /\ sent = EmptyBag
    /\ summary = EmptyBag
    /\ drains = 0
    /\ start_log = <<>>
    /\ outcome = <<>>
    /\ job = <<>>
    /\ child = <<>>
    /\ final_file = <<>>
    /\ partial_file = <<>>
    /\ wait = <<>>
    /\ ext = {}

\* ---------------------------------------------------------------- scheduler
\* Faulty variant of Drain: a drain that drops what the channel holds.
DrainNothing(chan) ==
    /\ summary' = summary
    /\ failures' = EmptyBag
    /\ drains' = drains + 1
    /\ run_result' = "ok"
    /\ main_pc' = "done"

\* Lines 430-440: the loop has ended; failures.try_iter() collects what the
\* channel holds (chan) and encode_videos returns Ok.
Drain(chan) ==
    /\ summary' = summary (+) chan
    /\ failures' = EmptyBag
    /\ drains' = drains + 1
    /\ run_result' = "ok"
    /\ main_pc' = "done"

\* Faulty variant of InitialFill: a start that leaves one slot of the pool empty.
InitialFillOneLess(jobs, queue) == Max(0, Min(jobs, Len(queue)) - 1)

\* Lines 395-401: how many tasks of the queue are started before the loop.
InitialFill(jobs, queue) == Min(jobs, Len(queue))

\* Faulty variant of Refill: two tasks are started for every task that ends.
RefillTwo(queue) == Min(2, Len(queue))

\* Lines 423-428: how many tasks of the queue one iteration of the loop
\* starts.
Refill(queue) == Min(1, Len(queue))

\* Faulty variant of CountAfter: every finished task counts, wait tasks too.
CountEveryTask(res) == finished_encode_count + 1

\* Lines 406-416: finished_encode_count after a task ended with result res.
CountAfter(res) ==
    IF res.tag \in {"Err", "EncodingDone"}
    THEN finished_encode_count + 1
    ELSE finished_encode_count

\* Faulty variant of ErrRecords: nothing is sent for a failed job.
NoErrRecords(t, res) == <<>>

\* Lines 406-410: what the loop sends for the result res of task t.
ErrRecords(t, res) ==
    IF res.tag = "Err" THEN <<Record(t.id, "input", res.msg)>> ELSE <<>>

\* Faulty variant of SetFinished: every completion of a task stores the flag.
SetFinishedAlways(count) ==
    /\ finished' = TRUE
    /\ finished_writes' = finished_writes + 1

\* Faulty variant of SetFinished: the store is made one job too early.
SetFinishedEarly(count) ==
    IF count + 1 >= task_count
    THEN /\ finished' = TRUE
         /\ finished_writes' = finished_writes + 1
    ELSE /\ finished' = finished
         /\ finished_writes' = finished_writes

\* The store to Encoder.finished at lines 417-421, given the new count.
SetFinished(count) ==
    IF count = task_count
    THEN /\ finished' = TRUE
         /\ finished_writes' = finished_writes + 1
    ELSE /\ finished' = finished
         /\ finished_writes' = finished_writes

\* Lines 404-429: FuturesUnordered yields the finished task t with result res
\* ([tag |-> "EncodingDone"], [tag |-> "WaitTaskDone"] or
\* [tag |-> "Err", msg |-> m]); rs are the records the task sent in its last
\* segment.  When the pool is empty afterwards the loop ends and lines
\* 430-440 run.
OnTaskFinished(t, res, rs) ==
    LET count  == CountAfter(res)
        all    == rs \o ErrRecords(t, res)
        chan   == SendAll(failures, all)
        k      == Refill(tasks_not_started)
        popped == SubSeq(tasks_not_started, 1, k)
        pool   == (tasks_started \ {t}) \cup SeqToSet(popped)
    IN  /\ finished_encode_count' = count
        /\ SetFinished(count)
        /\ sent' = SendAll(sent, all)
        /\ tasks_started' = pool
        /\ start_log' = start_log \o popped
        /\ tasks_not_started' =
               SubSeq(tasks_not_started, k + 1, Len(tasks_not_started))
        /\ outcome' = IF t.kind = "job"
                      THEN [outcome EXCEPT ![t.id] = Append(@, res.tag)]
                      ELSE outcome
        /\ IF pool = {}
           THEN Drain(chan)
           ELSE /\ failures' = chan
                /\ UNCHANGED <<summary, drains, run_result, main_pc>>

\* A segment of a task that does not end it and sends nothing.
TaskContinues ==
    UNCHANGED sched_vars

\* A panic in a task, after it sent the records rs, unwinds through
\* encode_videos and main: the run is over, nothing else of it runs.
Panic(rs) ==
    /\ run_result' = "panic"
    /\ main_pc' = "done"
    /\ failures' = SendAll(failures, rs)
    /\ sent' = SendAll(sent, rs)
    /\ UNCHANGED <<tasks_not_started, tasks_started, finished_encode_count,
                   finished, finished_writes, summary, drains, start_log,
                   outcome>>

\* ------------------------------------------------------- encode_videos start
\* Faulty variant of PushWaitTasks: the wait tasks are queued behind the jobs.
RECURSIVE PushWaitTasksBack(_, _, _)
PushWaitTasksBack(q, job_id, wait_count) ==
    IF job_id >= wait_count THEN q
    ELSE PushWaitTasksBack(Append(q, WaitTask(job_id)), job_id + 1, wait_count)

\* The queue built at lines 378-393: the jobs in discovery order, then each
\* wait task pushed to the front.
RECURSIVE PushWaitTasks(_, _, _)
PushWaitTasks(q, job_id, wait_count) ==
    IF job_id >= wait_count THEN q
    ELSE PushWaitTasks(PushFront(q, WaitTask(job_id)), job_id + 1, wait_count)

\* Faulty variant of WaitCount: one wait task less than the limit.
WaitCountOneLess(c, jobs) == IF c.slow_start THEN Max(0, jobs - 1) ELSE 0

\* Line 390: the number of wait tasks.
WaitCount(c, jobs) == IF c.slow_start THEN jobs ELSE 0

\* Faulty variant of JobQueue: the jobs are queued last input first.
JobQueueReversed(n) == [i \in 1..n |-> JobTask(n + 1 - i)]

\* Lines 378-385: one job per discovered input, in discovery order.
JobQueue(n) == [i \in 1..n |-> JobTask(i)]

\* get_video_paths stops at --limit videos (lines 891-896).
Limited(found, limit) == IF limit = NoValue THEN found ELSE Min(found, limit)

\* Output paths of n inputs: input i is written to path paths[i].  Either
\* every input has its own output path, or the first two inputs differ only
\* in their extension (a.avi, a.mkv) and share one (input_file.rs:87-95).
PathMaps(n) ==
    { [i \in 1..n |-> i] } \cup
    ( IF n >= 2 THEN { [i \in 1..n |-> IF i = 1 THEN 1 ELSE i - 1] } ELSE {} )

\* The local state of a job at its first poll: where it is, its output path
\* and the input size it read, then what it has done so far: what its
\* existence check saw (if it made one), whether it wrote its log file,
\* spawned ffmpeg, how ffmpeg exited and whether the final output existed
\* when the job learnt of it, how many renames it made, how often it
\* called check_encoded_size, what size that read and whether it removed the
\* output, what existed at the output path when the job ended, and the size
\* of its input that input_too_small compared with the minimum.
NewJob(path) ==
    [pc |-> "start", output_path |-> path, orig_size |-> NoValue,
     checked |-> FALSE, saw_final |-> FALSE, saw_partial |-> FALSE,
     log_written |-> FALSE, spawned |-> FALSE, exit |-> "none",
     exit_saw_final |-> FALSE,
     renames |-> 0, size_checks |-> 0, seen |-> NoValue, removed |-> FALSE,
     end_final |-> FALSE, end_partial |-> FALSE, compared |-> NoValue]

\* The pipe of a child that has not written, and nothing forwarded
NewPipe == [written |-> 0, unread |-> <<>>, stdout |-> <<>>]

\* get_video_paths fails (a directory cannot be read, line 881): `?` returns
\* the error at line 375.
DiscoveryFails ==
    /\ main_pc = "init"
    /\ main_pc' = "done"
    /\ run_result' = "err"
    /\ UNCHANGED <<call, tree, walk, pipe, cli, cores, task_count, tasks_not_started, tasks_started,
                   finished_encode_count, finished, finished_writes, failures,
                   sent, summary, drains, start_log, outcome, job, child,
                   final_file, partial_file, wait, ext>>

\* Lines 373-404 with n discovered inputs, up to the first next().await.
\* finals and partials are the output files that exist when the run starts.
EncodeVideosStart(n, paths, finals, partials) ==
    LET jobs       == GetJobs(cli, cores)
        wait_count == WaitCount(cli, jobs.val)
        queue      == PushWaitTasks(JobQueue(n), 0, wait_count)
        k          == InitialFill(jobs.val, queue)
        first      == SubSeq(queue, 1, k)
        pool       == SeqToSet(first)
    IN  /\ main_pc = "init"
        /\ task_count' = n
        /\ job' = [i \in 1..n |-> NewJob(paths[i])]
        /\ child' = [i \in 1..n |-> "none"]
        /\ pipe' = [i \in 1..n |-> NewPipe]
        /\ outcome' = [i \in 1..n |-> <<>>]
        /\ final_file' = finals
        /\ partial_file' = partials
        /\ UNCHANGED <<call, tree, walk, cli, cores, ext, finished_encode_count, finished,
                       finished_writes, failures, sent>>
        /\ IF cli.slow_start /\ ~jobs.ok
           THEN \* line 390: get_jobs()? returns the error
                /\ run_result' = "err"
                /\ main_pc' = "done"
                /\ wait' = <<>>
                /\ tasks_not_started' = JobQueue(n)
                /\ UNCHANGED <<tasks_started, start_log, summary, drains>>
           ELSE IF ~jobs.ok
           THEN \* line 396: get_jobs().expect(..) panics
                /\ run_result' = "panic"
                /\ main_pc' = "done"
                /\ wait' = <<>>
                /\ tasks_not_started' = JobQueue(n)
                /\ UNCHANGED <<tasks_started, start_log, summary, drains>>
           ELSE /\ wait' = [r \in 0..(wait_count - 1) |->
                               [pc |-> "start", running_ffmpegs |-> {}]]
                /\ tasks_started' = pool
                /\ tasks_not_started' = SubSeq(queue, k + 1, Len(queue))
                /\ start_log' = first
                /\ IF pool = {}
                   THEN \* no task at all: the loop ends at once, lines 430-440
                        /\ summary' = summary (+) failures
                        /\ drains' = drains + 1
                        /\ run_result' = "ok"
                        /\ main_pc' = "done"
                   ELSE /\ main_pc' = "loop"
                        /\ UNCHANGED <<summary, drains, run_result>>

\* ------------------------------------------------------------------ one job
Done(res)  == [tag |-> res]
Err(msg)   == [tag |-> "Err", msg |-> msg]

InPool(t) == main_pc = "loop" /\ t \in tasks_started

\* Faulty variant of InputTooSmall: an input of the minimum size is too
\* small as well.
InputTooSmallInclusive(size, minimum) ==
    IF minimum # NoValue THEN size <= minimum ELSE FALSE

\* input_too_small (lines 1057-1063) with the minimum already parsed.
InputTooSmall(size, minimum) ==
    IF minimum # NoValue THEN size < minimum ELSE FALSE

\* The size line 1060 compares with the minimum; no comparison is made when
\* the size could not be read (line 681) or no minimum is given (line 1058).
ComparedSize(size) == IF cli.minimum_size # NoValue THEN size ELSE NoValue

\* Faulty variant of MuchSmaller: a third of the expected size counts too.
MuchSmallerInclusive(percent, expected_size) ==
    percent <= expected_size \div 3

\* The test of line 958.
MuchSmaller(percent, expected_size) == percent < expected_size \div 3

\* Faulty variant of TooSmallOutput: the threshold itself is too small.
TooSmallOutputInclusive(size) == size <= MinOutputSize

\* The test of line 938.
TooSmallOutput(size) == size < MinOutputSize

\* check_encoded_size (lines 930-967) on an output of `size` bytes (Absent
\* when the output path has no file): the result, the messages sent and
\* whether the output is removed.  Division by zero panics.
CheckEncodedSize(orig_size, size, c) ==
    IF size = Absent
    THEN [res |-> "err", msgs |-> <<>>, remove |-> FALSE]
    ELSE IF TooSmallOutput(size)
    THEN [res |-> "ok", msgs |-> <<"deleting_small">>, remove |-> TRUE]
    ELSE IF orig_size = 0
    THEN [res |-> "panic", msgs |-> <<>>, remove |-> FALSE]
    ELSE LET percent == (size * 100) \div orig_size IN
         IF c.expected_size = NoValue
         THEN [res |-> "ok", msgs |-> <<>>, remove |-> FALSE]
         ELSE IF percent > c.expected_size
         THEN IF c.delete_too_large
              THEN [res |-> "ok", msgs |-> <<"deleting_too_large">>,
                    remove |-> TRUE]
              ELSE [res |-> "ok", msgs |-> <<"larger_than_expected">>,
                    remove |-> FALSE]
         ELSE IF MuchSmaller(percent, c.expected_size)
         THEN [res |-> "ok", msgs |-> <<"much_smaller">>, remove |-> FALSE]
         ELSE IF percent > 100 /\ c.delete_too_large
         THEN [res |-> "ok", msgs |-> <<"deleting_larger_than_original">>,
               remove |-> TRUE]
         ELSE [res |-> "ok", msgs |-> <<>>, remove |-> FALSE]

\* The records a job sends for a sequence of message kinds about its input.
RECURSIVE InputRecords(_, _)
InputRecords(j, msgs) ==
    IF msgs = <<>> THEN <<>>
    ELSE <<Record(j, "input", Head(msgs))>> \o InputRecords(j, Tail(msgs))

\* encode_video (lines 443-455) ends: the job, whose local state is jrec, is
\* done with result res after sending the records rs.  What exists at its
\* output path at that moment is kept with it.
JobEnds(j, jrec, res, rs) ==
    /\ job' = [job EXCEPT ![j] =
                 [jrec EXCEPT !.pc = "done", !.orig_size = NoValue,
                              !.end_final = final_file'[jrec.output_path],
                              !.end_partial = partial_file'[jrec.output_path]]]
    /\ OnTaskFinished(JobTask(j), res, rs)

JobPanics(j, jrec, rs) ==
    /\ job' = [job EXCEPT ![j] = [jrec EXCEPT !.pc = "panicked"]]
    /\ Panic(rs)

\* get_audio_seconds finds no time in the ffmpeg output: expect() panics
\* (input_file.rs:244), inside get_audio_args at line 540.
JobProbePanics(j) ==
    /\ InPool(JobTask(j))
    /\ job[j].pc = "start"
    /\ JobPanics(j, job[j], <<>>)
    /\ UNCHANGED <<call, tree, walk, pipe, cli, cores, task_count, child, final_file, partial_file,
                   wait, ext>>

\* Faulty variant of InputUnreadable: a failed read of the size is ignored.
InputUnreadableIgnored(size) == FALSE

\* get_file_size of the input fails (line 679-681).
InputUnreadable(size) == size = NoValue

\* Faulty variant of OutputExists: the partial file is not looked at.
OutputExistsFinalOnly(p) == final_file[p]

\* The test of line 562 on output path p.
OutputExists(p) == final_file[p] \/ partial_file[p]

\* Lines 465-697: from the first poll to the spawn of ffmpeg.  The awaits on
\* the way (the probes of get_audio_args) touch nothing another task reads,
\* so the segments before and after them are one step.  dir_ok: the parent
\* of the output path is or can be made a directory; size: the size of the
\* input (NoValue: metadata fails); spawn_ok: the OS starts ffmpeg.  The log
\* directory can be created.  Every path through get_audio_args (line 540)
\* writes a line to the log file of the input unless --no-log is given
\* (logger.rs:12-24).
JobSpawn(j, dir_ok, size, spawn_ok) ==
    LET p    == job[j].output_path
        j1   == [job[j] EXCEPT !.log_written = ~cli.no_log]
        j2   == [j1 EXCEPT !.checked = TRUE,
                           !.saw_final = final_file[p],
                           !.saw_partial = partial_file[p]]
    IN
    /\ InPool(JobTask(j))
    /\ job[j].pc = "start"
    /\ UNCHANGED <<call, tree, walk, pipe, cli, cores, task_count, final_file, partial_file, wait, ext>>
    /\ IF ~dir_ok
       THEN child' = child /\ JobEnds(j, job[j], Err("output_dir"), <<>>)
       ELSE IF ~cli.overwrite /\ OutputExists(p)
       THEN /\ child' = child
            /\ JobEnds(j, j2, Done("EncodingDone"),
                  (IF final_file[p]
                   THEN <<Record(j, "output", "output_exists")>> ELSE <<>>)
                  \o
                  (IF partial_file[p]
                   THEN <<Record(j, "partial", "partial_exists")>> ELSE <<>>))
       ELSE LET j3 == [(IF cli.overwrite THEN j1 ELSE j2)
                             EXCEPT !.compared = ComparedSize(size)] IN
            IF InputUnreadable(size)
            THEN child' = child /\ JobEnds(j, j3, Err("orig_size"), <<>>)
            ELSE IF InputTooSmall(size, cli.minimum_size)
            THEN child' = child /\ JobEnds(j, j3, Err("too_small"), <<>>)
            ELSE IF cli.noop
            THEN child' = child /\ JobEnds(j, j3, Done("EncodingDone"), <<>>)
            ELSE IF ~spawn_ok
            THEN child' = child /\ JobEnds(j, j3, Err("spawn"), <<>>)
            ELSE /\ child' = [child EXCEPT ![j] = "running"]
                 /\ job' = [job EXCEPT ![j] =
                              [j3 EXCEPT !.pc = "running", !.orig_size = size,
                                         !.spawned = TRUE]]
                 /\ TaskContinues

\* The validation at line 733 and the end of the job, whose local state is
\* jrec.  size is what metadata() reports for the final file if there is one.
Validate(j, jrec, rs, size) ==
    LET p    == jrec.output_path
        seen == IF final_file[p] THEN size ELSE Absent
        v    == CheckEncodedSize(jrec.orig_size, seen, cli)
        out  == rs \o InputRecords(j, v.msgs)
        j1   == [jrec EXCEPT !.size_checks = @ + 1, !.seen = seen,
                             !.removed = v.remove]
    IN  /\ final_file' = IF v.remove THEN [final_file EXCEPT ![p] = FALSE]
                         ELSE final_file
        /\ IF v.res = "panic" THEN JobPanics(j, j1, rs)
           ELSE IF v.res = "err" THEN JobEnds(j, j1, Err("output_size"), out)
           ELSE JobEnds(j, j1, Done("EncodingDone"), out)

\* Faulty variant of Conflict: an existing final output is never a conflict.
ConflictNever(p) == FALSE

\* The test of line 716 on output path p.
Conflict(p) == ~cli.overwrite /\ final_file[p]

\* The buffer of line 700, 1024 bytes in the code, in bytes of the model
BufLen == 2

\* Lines 703-706: one read of the child's stdout into buf returns the bytes
\* the pipe holds, at most the length of buf (none at end of file), and
\* write_all writes just these to the standard output.
ReadAndForward(p) ==
    LET n == Min(BufLen, Len(p.unread)) IN
    [p EXCEPT !.unread = SubSeq(@, n + 1, Len(@)),
              !.stdout = @ \o SubSeq(p.unread, 1, n)]

\* Lines 701-711, an iteration of the loop in which try_wait() finds the
\* child running: the read returns when the pipe holds bytes.
JobReads(j) ==
    /\ InPool(JobTask(j))
    /\ job[j].pc = "running"
    /\ child[j] = "running"
    /\ pipe[j].unread # <<>>
    /\ pipe' = [pipe EXCEPT ![j] = ReadAndForward(pipe[j])]
    /\ UNCHANGED <<call, tree, walk, cli, cores, task_count, job, child, final_file,
                   partial_file, wait, ext, sched_vars>>

\* Lines 701-733: the child has exited with `status`; try_wait() returns it,
\* the read at line 703 returns and the job commits or reports.  size: see
\* Validate.
JobExit(j, status, size) ==
    LET p  == job[j].output_path
        j1 == [job[j] EXCEPT !.exit = status,
                             !.exit_saw_final = final_file[p]]
    IN
    /\ InPool(JobTask(j))
    /\ job[j].pc = "running"
    /\ child[j] = "running"
    /\ child' = [child EXCEPT ![j] = "none"]
    /\ pipe' = [pipe EXCEPT ![j] = ReadAndForward(pipe[j])]
    /\ UNCHANGED <<call, tree, walk, cli, cores, task_count, partial_file, wait, ext>>
    /\ IF status = "exit_ok"
       THEN IF Conflict(p)
            THEN final_file' = final_file
                 /\ JobEnds(j, j1, Err("conflict"), <<>>)
            ELSE /\ job' = [job EXCEPT ![j] = [j1 EXCEPT !.pc = "renaming"]]
                 /\ final_file' = final_file
                 /\ TaskContinues
       ELSE Validate(j, j1, <<Record(j, "input", "encoding_error")>>, size)

\* Faulty variant of RenameDone: the partial file is copied to the final
\* path and stays.
RenameCopies(j) ==
    LET p == job[j].output_path IN
    /\ InPool(JobTask(j))
    /\ job[j].pc = "renaming"
    /\ IF partial_file[p]
       THEN /\ final_file' = [final_file EXCEPT ![p] = TRUE]
            /\ partial_file' = partial_file
            /\ job' = [job EXCEPT ![j].pc = "renamed", ![j].renames = @ + 1]
       ELSE /\ UNCHANGED <<final_file, partial_file>>
            /\ job' = [job EXCEPT ![j].pc = "rename_failed"]
    /\ UNCHANGED <<call, tree, walk, pipe, cli, cores, task_count, child, wait, ext, sched_vars>>

\* tokio::fs::rename (line 722) is carried out: the partial file replaces the
\* final file, or the rename fails because there is no partial file.
RenameDone(j) ==
    LET p == job[j].output_path IN
    /\ InPool(JobTask(j))
    /\ job[j].pc = "renaming"
    /\ IF partial_file[p]
       THEN /\ final_file' = [final_file EXCEPT ![p] = TRUE]
            /\ partial_file' = [partial_file EXCEPT ![p] = FALSE]
            /\ job' = [job EXCEPT ![j].pc = "renamed", ![j].renames = @ + 1]
       ELSE /\ UNCHANGED <<final_file, partial_file>>
            /\ job' = [job EXCEPT ![j].pc = "rename_failed"]
    /\ UNCHANGED <<call, tree, walk, pipe, cli, cores, task_count, child, wait, ext, sched_vars>>

\* The job resumes after the rename, lines 722-738.
JobAfterRename(j, size) ==
    /\ InPool(JobTask(j))
    /\ job[j].pc \in {"renamed", "rename_failed"}
    /\ UNCHANGED <<call, tree, walk, pipe, cli, cores, task_count, child, partial_file, wait, ext>>
    /\ IF job[j].pc = "renamed"
       THEN Validate(j, job[j], <<>>, size)
       ELSE final_file' = final_file /\ JobEnds(j, job[j], Err("rename"), <<>>)

\* ------------------------------------------------------- the ffmpeg children
\* Faulty variant of ChildWrites: ffmpeg is given the final path as its
\* output.
ChildWritesFinal(j) ==
    LET p == job[j].output_path IN
    /\ main_pc = "loop"
    /\ child[j] = "running"
    /\ ~final_file[p]
    /\ final_file' = [final_file EXCEPT ![p] = TRUE]
    /\ UNCHANGED <<call, tree, walk, pipe, cli, cores, task_count, job, child, partial_file, wait, ext,
                   sched_vars>>

\* The child of job j writes a byte to its stdout, the pipe of line 691.
\* Bytes are told apart by their position in what the child writes.
MaxWritten == 3

ChildWritesStdout(j) ==
    /\ main_pc = "loop"
    /\ child[j] = "running"
    /\ pipe[j].written < MaxWritten
    /\ pipe' = [pipe EXCEPT ![j].written = @ + 1,
                            ![j].unread = Append(@, pipe[j].written + 1)]
    /\ UNCHANGED <<call, tree, walk, cli, cores, task_count, job, child, final_file,
                   partial_file, wait, ext, sched_vars>>

\* The child of job j writes its output, the partial path (line 655).
ChildWrites(j) ==
    LET p == job[j].output_path IN
    /\ main_pc = "loop"
    /\ child[j] = "running"
    /\ ~partial_file[p]
    /\ partial_file' = [partial_file EXCEPT ![p] = TRUE]
    /\ UNCHANGED <<call, tree, walk, pipe, cli, cores, task_count, job, child, final_file, wait, ext,
                   sched_vars>>

\* ------------------------------------------------------------- wait tasks
\* wait_for_ffmpeg (lines 969-1030).  get_running_ffmpeg returns the ffmpeg
\* processes that do not descend from this process: ext.
WaitEnds(r) ==
    /\ wait' = [wait EXCEPT ![r] = [pc |-> "done", running_ffmpegs |-> {}]]
    /\ OnTaskFinished(WaitTask(r), Done("WaitTaskDone"), <<>>)

\* Faulty variant of Allowed: one external ffmpeg process more is allowed.
AllowedOneMore(jobs, job_id) == jobs - job_id

\* Line 1010: the external ffmpeg processes the wait task job_id puts up
\* with.
Allowed(jobs, job_id) == jobs - 1 - job_id

\* Faulty variant of WaitLoop: the completion flag is not looked at.
WaitLoopIgnoresFlag(r, snap) ==
    LET jobs     == GetJobs(cli, cores).val
        allowed  == Allowed(jobs, r)
        too_many == Cardinality(snap) - allowed
    IN  /\ wait' = [wait EXCEPT
               ![r] = [pc |-> IF too_many <= 0 THEN "settle" ELSE "sleep",
                       running_ffmpegs |-> snap]]
        /\ TaskContinues

\* Lines 1001-1028 from the top of the loop to the next sleep, with the
\* snapshot snap in running_ffmpegs.
WaitLoop(r, snap) ==
    LET jobs     == GetJobs(cli, cores).val
        allowed  == Allowed(jobs, r)
        too_many == Cardinality(snap) - allowed
    IN  IF finished
        THEN WaitEnds(r)
        ELSE /\ wait' = [wait EXCEPT
                    ![r] = [pc |-> IF too_many <= 0 THEN "settle" ELSE "sleep",
                            running_ffmpegs |-> snap]]
             /\ TaskContinues

\* First poll: the snapshot at line 1000, then the loop.
WaitStart(r) ==
    /\ InPool(WaitTask(r))
    /\ wait[r].pc = "start"
    /\ WaitLoop(r, ext)
    /\ UNCHANGED <<call, tree, walk, pipe, cli, cores, task_count, job, child, final_file,
                   partial_file, ext>>

\* After the sleep at line 1027: the loop again, with the snapshot it has.
WaitWakes(r) ==
    /\ InPool(WaitTask(r))
    /\ wait[r].pc = "sleep"
    /\ WaitLoop(r, wait[r].running_ffmpegs)
    /\ UNCHANGED <<call, tree, walk, pipe, cli, cores, task_count, job, child, final_file,
                   partial_file, ext>>

\* Faulty variant of IsSubset: the two sets are taken the other way round.
IsSubsetReversed(new_ffmpegs, running_ffmpegs) ==
    running_ffmpegs \subseteq new_ffmpegs

\* HashSet::is_subset at line 1019.
IsSubset(new_ffmpegs, running_ffmpegs) == new_ffmpegs \subseteq running_ffmpegs

\* After the sleep at line 1017: the second snapshot, lines 1018-1027.
WaitSettles(r) ==
    /\ InPool(WaitTask(r))
    /\ wait[r].pc = "settle"
    /\ IF IsSubset(ext, wait[r].running_ffmpegs)
       THEN WaitEnds(r)
       ELSE /\ wait' = [wait EXCEPT ![r] = [pc |-> "sleep",
                                            running_ffmpegs |-> ext]]
            /\ TaskContinues
    /\ UNCHANGED <<call, tree, walk, pipe, cli, cores, task_count, job, child, final_file,
                   partial_file, ext>>

\* ffmpeg processes of other invocations start and exit.  Only wait tasks
\* read them, so a change is a step only while a wait task has not returned.
ExternalFfmpegChange(pids) ==
    /\ main_pc = "loop"
    /\ \E r \in DOMAIN wait : wait[r].pc # "done"
    /\ pids # ext
    /\ ext' = pids
    /\ UNCHANGED <<call, tree, walk, pipe, cli, cores, task_count, job, child, final_file,
                   partial_file, wait, sched_vars>>

\* ------------------------------------------------------------- discovery
\* get_video_paths (lines 869-928).  It has no await at which another task
\* of this program runs, and it is called before any task exists (line 375).

\* Path::to_string_lossy of a path below the video root (lines 886-887): the
\* names joined by "/", every byte that is no valid UTF-8 replaced by U+FFFD.
\* The prefix all the paths share, the video root, is left out.
LossyChar(n) == IF n \in {ByteFE, ByteFF} THEN Replacement ELSE n

ToStringLossy(path) ==
    IF Len(path) = 1 THEN <<LossyChar(path[1])>>
    ELSE <<LossyChar(path[1]), Separator, LossyChar(path[2])>>

\* lexical_sort::natural_lexical_cmp (line 885) on the strings of the model.
\* They hold no digit and no two letters that differ in case or accent
\* only, so that the comparison goes character by character.
RECURSIVE NaturalLexicalCmp(_, _)
NaturalLexicalCmp(s1, s2) ==
    IF s1 = <<>> /\ s2 = <<>> THEN "equal"
    ELSE IF s1 = <<>> THEN "less"
    ELSE IF s2 = <<>> THEN "greater"
    ELSE IF Head(s1) < Head(s2) THEN "less"
    ELSE IF Head(s1) > Head(s2) THEN "greater"
    ELSE NaturalLexicalCmp(Tail(s1), Tail(s2))

\* The comparison the entries are sorted by (lines 884-889)
EntryCmp(e1, e2) == NaturalLexicalCmp(ToStringLossy(e1), ToStringLossy(e2))

\* dir.read_dir() (lines 881-883): the entries of a directory, in the order
\* the filesystem lists them.  dir is a path, <<>> for the video root.
Children(t, dir) ==
    { e \in t.files \cup {<<d>> : d \in t.dirs} :
        /\ Len(e) = Len(dir) + 1
        /\ \A i \in 1..Len(dir) : e[i] = dir[i] }

ListedBefore(listing, e1, e2) ==
    IF listing = "up" THEN e1[Len(e1)] < e2[Len(e2)]
    ELSE e1[Len(e1)] > e2[Len(e2)]

RECURSIVE ReadDirOf(_, _)
ReadDirOf(listing, es) ==
    IF es = {} THEN <<>>
    ELSE LET first == CHOOSE e \in es :
                          \A o \in es \ {e} : ListedBefore(listing, e, o)
         IN  <<first>> \o ReadDirOf(listing, es \ {first})

ReadDir(t, dir, listing) == ReadDirOf(listing, Children(t, dir))

\* entries.sort_by (line 884), a stable sort: an entry goes behind every
\* entry that does not compare greater, so entries that compare equal keep
\* the order they were listed in.
RECURSIVE InsertSorted(_, _)
InsertSorted(sorted, e) ==
    IF sorted = <<>> THEN <<e>>
    ELSE IF EntryCmp(e, Head(sorted)) = "less" THEN <<e>> \o sorted
    ELSE <<Head(sorted)>> \o InsertSorted(Tail(sorted), e)

RECURSIVE SortBy(_)
SortBy(entries) ==
    IF entries = <<>> THEN <<>>
    ELSE InsertSorted(SortBy(SubSeq(entries, 1, Len(entries) - 1)),
                      entries[Len(entries)])

\* What a glob of the model matches (globset, line 826; "*" also matches
\* "/").  Only a file's name ends with the video extension.
GlobMatches(glob, path, t) ==
    CASE glob = "*.mp4" -> path \in t.files
      [] glob = "a/*"   -> Len(path) = 2 /\ path[1] = NameA
      [] glob = "a*"    -> path[1] = NameA
      [] glob = "b"     -> path = <<NameB>>

\* is_match (lines 820-830) on a matcher that holds globs only
IsMatch(globs, path, t) == \E g \in globs : GlobMatches(g, path, t)

\* get_matcher_from_globs(.., allow_empty = false) is None (lines 840-842)
NoMatcher(inputs) == inputs = {}

\* The limit test at the top of the loop over the entries (lines 891-896)
LimitReachedLate(c, videos) == c.limit # NoValue /\ Len(videos) > c.limit

LimitReached(c, videos) == c.limit # NoValue /\ Len(videos) = c.limit

\* The loop over the sorted entries of one directory (lines 890-924): the
\* videos and the queue of directories after it, and whether it returned.
RECURSIVE WalkEntries(_, _, _, _, _)
WalkEntries(t, c, entries, dirs, videos) ==
    IF entries = <<>>
    THEN [returned |-> FALSE, dirs |-> dirs, videos |-> videos]
    ELSE LET fname == Head(entries)
             rest  == Tail(entries)
         IN  IF LimitReached(c, videos)
             THEN [returned |-> TRUE, dirs |-> dirs, videos |-> videos]
             ELSE IF ~NoMatcher(c.include) /\ ~IsMatch(c.include, fname, t)
             THEN WalkEntries(t, c, rest, dirs, videos)
             ELSE IF IsMatch(c.exclude, fname, t)
             THEN WalkEntries(t, c, rest, dirs, videos)
             ELSE IF fname \notin t.files
             THEN WalkEntries(t, c, rest, Append(dirs, fname), videos)
             ELSE WalkEntries(t, c, rest, dirs, Append(videos, fname))

\* The loop over the queue of directories (lines 879-927)
RECURSIVE WalkDirs(_, _, _, _, _)
WalkDirs(t, c, listing, dirs, videos) ==
    IF dirs = <<>> THEN videos
    ELSE LET r == WalkEntries(t, c, SortBy(ReadDir(t, Head(dirs), listing)),
                              Tail(dirs), videos)
         IN  IF r.returned THEN r.videos
             ELSE WalkDirs(t, c, listing, r.dirs, r.videos)

GetVideoPaths(t, c, listing) == WalkDirs(t, c, listing, <<<<>>>>, <<>>)

\* One call of get_video_paths on the tree, the filesystem listing every
\* directory in one of its orders.  The tree does not change; the call is
\* repeated to compare what two walks of one tree return.
MaxWalks == 2

GetVideoPathsCall(listing) ==
    /\ main_pc = "init"
    /\ walk.walks < MaxWalks
    /\ walk' = [walks   |-> walk.walks + 1,
                listing |-> listing,
                videos  |-> GetVideoPaths(tree, cli, listing),
                prev    |-> walk.videos]
    /\ UNCHANGED <<call, tree, pipe, cli, cores, main_pc, run_result, task_count,
                   tasks_not_started, tasks_started, finished_encode_count,
                   finished, finished_writes, failures, sent, summary, drains,
                   start_log, outcome, job, child, final_file, partial_file,
                   wait, ext>>

\* ---------------------------------------------------------- specification
Jobs == 1..task_count

\* Which files may exist at the start: only output paths of some input.
FileStates(n, paths) ==
    { f \in [1..n -> BOOLEAN] :
        \A p \in 1..n : f[p] => \E i \in 1..n : paths[i] = p }

StartAction ==
    \E found \in 0..MaxFiles :
        LET n == Limited(found, cli.limit) IN
        \E paths \in PathMaps(n) :
            \E finals, partials \in FileStates(n, paths) :
                EncodeVideosStart(n, paths, finals, partials)

JobProbePanicsAction == \E j \in Jobs : JobProbePanics(j)
JobSpawnAction ==
    \E j \in Jobs : \E dir_ok, spawn_ok \in BOOLEAN :
        \E size \in {NoValue} \cup InSizes : JobSpawn(j, dir_ok, size, spawn_ok)
JobExitAction ==
    \E j \in Jobs : \E status \in {"exit_ok", "exit_fail"} :
        \E size \in OutSizes : JobExit(j, status, size)
RenameDoneAction    == \E j \in Jobs : RenameDone(j)
JobAfterRenameAction == \E j \in Jobs : \E size \in OutSizes : JobAfterRename(j, size)
ChildWritesAction   == \E j \in Jobs : ChildWrites(j)
WaitStartAction     == \E r \in DOMAIN wait : WaitStart(r)
WaitWakesAction     == \E r \in DOMAIN wait : WaitWakes(r)
WaitSettlesAction   == \E r \in DOMAIN wait : WaitSettles(r)
ExternalAction      == \E pids \in SUBSET Pids : ExternalFfmpegChange(pids)

Next ==
    \/ DiscoveryFails
    \/ StartAction
    \/ JobProbePanicsAction
    \/ JobSpawnAction
    \/ JobExitAction
    \/ RenameDoneAction
    \/ JobAfterRenameAction
    \/ ChildWritesAction
    \/ WaitStartAction
    \/ WaitWakesAction
    \/ WaitSettlesAction
    \/ ExternalAction

Spec == Init /\ [][Next]_vars

\* The ranks a wait task can have under some command line and core count.
WaitRanks ==
    UNION { 0..(GetJobs(c, n).val - 1) : c \in SchedulerClis, n \in CoreCounts }

\* The command lines of the job model: the scheduler's options are left at
\* their defaults and every value of the options one job reads is taken.
JobClis ==
    { c \in CliValues :
        /\ c.jobs = NoValue
        /\ ~c.x265
        /\ ~c.slow_start
        /\ c.include = {}
        /\ c.exclude = {} }

JobInit ==
    /\ cli \in JobClis
    /\ cores \in CoreCounts
    /\ main_pc = "init"
    /\ tree = NoTree
    /\ walk = NewWalk
    /\ pipe = <<>>
    /\ call = NoCall
    /\ run_result = "none"
    /\ task_count = 0
    /\ tasks_not_started = <<>>
    /\ tasks_started = {}
    /\ finished_encode_count = 0
    /\ finished = FALSE
    /\ finished_writes = 0
    /\ failures = EmptyBag
    /\ sent = EmptyBag
    /\ summary = EmptyBag
    /\ drains = 0
    /\ start_log = <<>>
    /\ outcome = <<>>
    /\ job = <<>>
    /\ child = <<>>
    /\ final_file = <<>>
    /\ partial_file = <<>>
    /\ wait = <<>>
    /\ ext = {}

\* Without --slow-start there is no wait task, and the ffmpeg processes of
\* other invocations are read by wait tasks only.
JobNext ==
    \/ DiscoveryFails
    \/ StartAction
    \/ JobProbePanicsAction
    \/ JobSpawnAction
    \/ JobExitAction
    \/ RenameDoneAction
    \/ JobAfterRenameAction
    \/ ChildWritesAction

\* The specification of the jobs under every option they read.
JobSpec == JobInit /\ [][JobNext]_vars

\* The sizes of inputs and outputs of the size model: with the larger input
\* the outputs are 24, 25, 74, 75, 76, 100 and 101 percent of it.
RatioInSizes  == {0, 400, 1250}
RatioOutSizes == {MinOutputSize - 1, MinOutputSize, 313, 937, 938, 950,
                  1250, 1263}

\* The command lines of the size model: the options check_encoded_size reads
\* and --overwrite, for one input (--limit 1).
SizeClis ==
    { c \in JobClis :
        /\ c.minimum_size = NoValue
        /\ ~c.noop
        /\ ~c.no_log
        /\ c.limit = 1 }

SizeInit ==
    /\ cli \in SizeClis
    /\ cores \in CoreCounts
    /\ main_pc = "init"
    /\ tree = NoTree
    /\ walk = NewWalk
    /\ pipe = <<>>
    /\ call = NoCall
    /\ run_result = "none"
    /\ task_count = 0
    /\ tasks_not_started = <<>>
    /\ tasks_started = {}
    /\ finished_encode_count = 0
    /\ finished = FALSE
    /\ finished_writes = 0
    /\ failures = EmptyBag
    /\ sent = EmptyBag
    /\ summary = EmptyBag
    /\ drains = 0
    /\ start_log = <<>>
    /\ outcome = <<>>
    /\ job = <<>>
    /\ child = <<>>
    /\ final_file = <<>>
    /\ partial_file = <<>>
    /\ wait = <<>>
    /\ ext = {}

SizeSpawnAction ==
    \E j \in Jobs : \E size \in RatioInSizes : JobSpawn(j, TRUE, size, TRUE)
SizeExitAction ==
    \E j \in Jobs : \E status \in {"exit_ok", "exit_fail"} :
        \E size \in RatioOutSizes : JobExit(j, status, size)
SizeAfterRenameAction ==
    \E j \in Jobs : \E size \in RatioOutSizes : JobAfterRename(j, size)

SizeNext ==
    \/ StartAction
    \/ SizeSpawnAction
    \/ SizeExitAction
    \/ RenameDoneAction
    \/ SizeAfterRenameAction
    \/ ChildWritesAction

\* The specification of one encode with inputs and outputs of many sizes.
SizeSpec == SizeInit /\ [][SizeNext]_vars

\* The command lines of the pipe model: one input, no option that ends the
\* job before the spawn or that the ratio check reads.
PipeClis == { c \in SizeClis : c.expected_size = NoValue }

PipeInit ==
    /\ cli \in PipeClis
    /\ cores \in CoreCounts
    /\ main_pc = "init"
    /\ tree = NoTree
    /\ walk = NewWalk
    /\ pipe = <<>>
    /\ call = NoCall
    /\ run_result = "none"
    /\ task_count = 0
    /\ tasks_not_started = <<>>
    /\ tasks_started = {}
    /\ finished_encode_count = 0
    /\ finished = FALSE
    /\ finished_writes = 0
    /\ failures = EmptyBag
    /\ sent = EmptyBag
    /\ summary = EmptyBag
    /\ drains = 0
    /\ start_log = <<>>
    /\ outcome = <<>>
    /\ job = <<>>
    /\ child = <<>>
    /\ final_file = <<>>
    /\ partial_file = <<>>
    /\ wait = <<>>
    /\ ext = {}

ChildWritesStdoutAction == \E j \in Jobs : ChildWritesStdout(j)
JobReadsAction          == \E j \in Jobs : JobReads(j)

PipeNext ==
    \/ StartAction
    \/ JobSpawnAction
    \/ ChildWritesStdoutAction
    \/ JobReadsAction
    \/ JobExitAction
    \/ RenameDoneAction
    \/ JobAfterRenameAction
    \/ ChildWritesAction

\* The specification of one encode whose child writes to its stdout.
PipeSpec == PipeInit /\ [][PipeNext]_vars

\* The sets of ffmpeg processes of other invocations in the quiet model.
QuietExts == {{}, {1}, {1, 2}}

\* The quiet model: slow-start, with ffmpeg processes of other invocations
\* that run from before the start to after the end of the run.
QuietInit ==
    /\ cli \in { c \in SchedulerClis : c.slow_start }
    /\ cores \in CoreCounts
    /\ (cli.jobs # NoValue) => \A c \in CoreCounts : cores <= c
    /\ ext \in QuietExts
    /\ main_pc = "init"
    /\ tree = NoTree
    /\ walk = NewWalk
    /\ pipe = <<>>
    /\ call = NoCall
    /\ run_result = "none"
    /\ task_count = 0
    /\ tasks_not_started = <<>>
    /\ tasks_started = {}
    /\ finished_encode_count = 0
    /\ finished = FALSE
    /\ finished_writes = 0
    /\ failures = EmptyBag
    /\ sent = EmptyBag
    /\ summary = EmptyBag
    /\ drains = 0
    /\ start_log = <<>>
    /\ outcome = <<>>
    /\ job = <<>>
    /\ child = <<>>
    /\ final_file = <<>>
    /\ partial_file = <<>>
    /\ wait = <<>>

QuietNext ==
    \/ StartAction
    \/ JobProbePanicsAction
    \/ JobSpawnAction
    \/ JobExitAction
    \/ RenameDoneAction
    \/ JobAfterRenameAction
    \/ ChildWritesAction
    \/ WaitStartAction
    \/ WaitWakesAction
    \/ WaitSettlesAction

QuietSpec == QuietInit /\ [][QuietNext]_vars

\* The discovery model: one tree, every value of the options
\* get_video_paths reads (--limit, --include, --exclude), the others at
\* their defaults, and the calls of get_video_paths.
WalkClis ==
    { c \in CliValues :
        /\ c.jobs = NoValue
        /\ ~c.x265
        /\ ~c.slow_start
        /\ ~c.overwrite
        /\ c.expected_size = NoValue
        /\ c.minimum_size = NoValue
        /\ ~c.noop
        /\ ~c.no_log }

WalkInit ==
    /\ cli \in WalkClis
    /\ cores \in CoreCounts
    /\ tree \in Trees
    /\ walk = NewWalk
    /\ pipe = <<>>
    /\ call = NoCall
    /\ main_pc = "init"
    /\ run_result = "none"
    /\ task_count = 0
    /\ tasks_not_started = <<>>
    /\ tasks_started = {}
    /\ finished_encode_count = 0
    /\ finished = FALSE
    /\ finished_writes = 0
    /\ failures = EmptyBag
    /\ sent = EmptyBag
    /\ summary = EmptyBag
    /\ drains = 0
    /\ start_log = <<>>
    /\ outcome = <<>>
    /\ job = <<>>
    /\ child = <<>>
    /\ final_file = <<>>
    /\ partial_file = <<>>
    /\ wait = <<>>
    /\ ext = {}

WalkNext == \E listing \in Listings : GetVideoPathsCall(listing)

WalkSpec == WalkInit /\ [][WalkNext]_vars

\* ----------------------------------------------------------- extra flags
\* A string is a sequence of pieces: the text "-vf", another word character
\* or a blank.
Blank     == " "
Pieces    == {"-vf", "x", Blank}
EmptyStr  == <<>>
VfFlag    == <<"-vf">>

MaxFlagLen == 3
MaxFlags   == 2

FlagStrings == UNION { [1..n -> Pieces] : n \in 0..MaxFlagLen }

\* The values of --extra-flag a command line may hold (Vec<String>)
ExtraFlagLists == UNION { [1..n -> FlagStrings] : n \in 0..MaxFlags }

\* The first position from i on whose piece is (blank = TRUE) or is not
\* (blank = FALSE) a blank, Len(str) + 1 when there is none.
RECURSIVE Find(_, _, _)
Find(str, i, blank) ==
    IF i > Len(str) THEN Len(str) + 1
    ELSE IF (str[i] = Blank) = blank THEN i
    ELSE Find(str, i + 1, blank)

\* whitespace_re.splitn(extra_flag, 2) with the regex \s+ (lines 274, 281):
\* the text before the first run of blanks and all the text after that run,
\* or the string itself when it holds no blank.
SplitN2(str) ==
    LET b == Find(str, 1, TRUE)
        e == Find(str, b, FALSE)
    IN  IF b > Len(str) THEN <<str>>
        ELSE <<SubSeq(str, 1, b - 1), SubSeq(str, e, Len(str))>>

\* Cli::get_extra_flags (lines 273-284): flat_map over the values
RECURSIVE GetExtraFlags(_)
GetExtraFlags(extra_flag) ==
    IF extra_flag = <<>> THEN <<>>
    ELSE SplitN2(Head(extra_flag)) \o GetExtraFlags(Tail(extra_flag))

\* The i-th pair of raw.chain([""]) zipped with [""].chain(raw)
\* (lines 291-294 and 310-313)
ZipArg(raw, i)  == IF i <= Len(raw) THEN raw[i] ELSE EmptyStr
ZipPrev(raw, i) == IF i = 1 THEN EmptyStr ELSE raw[i - 1]

\* The filter_map of get_extra_normal_flags (lines 295-301) from pair i on
RECURSIVE NormalFrom(_, _)
NormalFrom(raw, i) ==
    IF i > Len(raw) + 1 THEN <<>>
    ELSE (IF /\ ZipArg(raw, i) # EmptyStr
             /\ ZipArg(raw, i) # VfFlag
             /\ ZipPrev(raw, i) # VfFlag
          THEN <<ZipArg(raw, i)>> ELSE <<>>) \o NormalFrom(raw, i + 1)

\* The filter_map of get_extra_vf_flags (lines 314-320) from pair i on
RECURSIVE VfFrom(_, _)
VfFrom(raw, i) ==
    IF i > Len(raw) + 1 THEN <<>>
    ELSE (IF ZipPrev(raw, i) = VfFlag
          THEN <<ZipArg(raw, i)>> ELSE <<>>) \o VfFrom(raw, i + 1)

\* Cli::get_extra_normal_flags (lines 286-303)
GetExtraNormalFlags(extra_flag) == NormalFrom(GetExtraFlags(extra_flag), 1)

\* Cli::get_extra_vf_flags (lines 305-322)
GetExtraVfFlags(extra_flag) == VfFrom(GetExtraFlags(extra_flag), 1)

\* The state of a run in which only a helper method is looked at
IdleRun ==
    /\ cli \in { c \in WalkClis :
                    c.limit = NoValue /\ c.include = {} /\ c.exclude = {} }
    /\ cores \in CoreCounts
    /\ tree = NoTree
    /\ walk = NewWalk
    /\ pipe = <<>>
    /\ main_pc = "init"
    /\ run_result = "none"
    /\ task_count = 0
    /\ tasks_not_started = <<>>
    /\ tasks_started = {}
    /\ finished_encode_count = 0
    /\ finished = FALSE
    /\ finished_writes = 0
    /\ failures = EmptyBag
    /\ sent = EmptyBag
    /\ summary = EmptyBag
    /\ drains = 0
    /\ start_log = <<>>
    /\ outcome = <<>>
    /\ job = <<>>
    /\ child = <<>>
    /\ final_file = <<>>
    /\ partial_file = <<>>
    /\ wait = <<>>
    /\ ext = {}

IdleUnchanged ==
    UNCHANGED <<cli, cores, tree, walk, pipe, main_pc, run_result, task_count,
                tasks_not_started, tasks_started, finished_encode_count,
                finished, finished_writes, failures, sent, summary, drains,
                start_log, outcome, job, child, final_file, partial_file,
                wait, ext>>

\* The two methods are called on one command line (lines 606 and 641)
FlagInit ==
    /\ IdleRun
    /\ \E fs \in ExtraFlagLists :
          call = [method |-> "extra_flags", extra_flag |-> fs,
                  called |-> {}, normal |-> <<>>, vf |-> <<>>]

GetExtraNormalFlagsCall ==
    /\ call.method = "extra_flags"
    /\ "normal" \notin call.called
    /\ call' = [call EXCEPT !.called = @ \cup {"normal"},
                            !.normal = GetExtraNormalFlags(call.extra_flag)]
    /\ IdleUnchanged

GetExtraVfFlagsCall ==
    /\ call.method = "extra_flags"
    /\ "vf" \notin call.called
    /\ call' = [call EXCEPT !.called = @ \cup {"vf"},
                            !.vf = GetExtraVfFlags(call.extra_flag)]
    /\ IdleUnchanged

FlagNext == GetExtraNormalFlagsCall \/ GetExtraVfFlagsCall

FlagSpec == FlagInit /\ [][FlagNext]_vars

\* ------------------------------------------------------------ video codec
\* The options get_video_codec may read, every combination of them (the
\* method is defined on every Cli value, also those clap refuses).
CodecFlags ==
    [copy_streams : BOOLEAN, reference : BOOLEAN, for_tv : BOOLEAN,
     av1 : BOOLEAN, x265 : BOOLEAN, anime : BOOLEAN,
     anime_slow_well_lit : BOOLEAN, anime_mixed_dark_battle : BOOLEAN]

\* Faulty variant of GetVideoCodec: --av1 is looked at before --reference
\* and --for-tv.
GetVideoCodecAv1First(c) ==
    IF c.copy_streams THEN "Copy"
    ELSE IF c.av1 THEN "Av1"
    ELSE IF c.reference \/ c.for_tv THEN "H264"
    ELSE "H265"

\* Cli::get_video_codec (lines 238-248)
GetVideoCodec(c) ==
    IF c.copy_streams THEN "Copy"
    ELSE IF c.reference \/ c.for_tv THEN "H264"
    ELSE IF c.av1 THEN "Av1"
    ELSE "H265"

CodecInit ==
    /\ IdleRun
    /\ \E c \in CodecFlags :
          call = [method |-> "codec", flags |-> c, called |-> FALSE,
                  codec |-> "none"]

GetVideoCodecCall ==
    /\ call.method = "codec"
    /\ ~call.called
    /\ call' = [call EXCEPT !.called = TRUE,
                            !.codec = GetVideoCodec(call.flags)]
    /\ IdleUnchanged

CodecNext == GetVideoCodecCall

CodecSpec == CodecInit /\ [][CodecNext]_vars

\* ------------------------------------------------------------ output path
\* A path is the sequence of its components.  The directory components of
\* the model, the file names, the video roots and the inputs:
DirComps  == {".", "..", "a", "b"}
FileNames == {"vid.mp4", "vid.MP4", "vid.avi", "vid", "{crf}.mp4"}
RootPaths == {<<".">>, <<"a">>, <<".", "a">>, <<"a", "b">>}
InputPaths ==
    { d \o <<f>> : d \in UNION { [1..n -> DirComps] : n \in 0..2 },
                   f \in FileNames }

\* Path::extension of a file name, "" for None, and the name without it
\* (Path::with_extension(""))
Extension(f) ==
    CASE f = "vid.mp4"   -> "mp4"
      [] f = "vid.MP4"   -> "MP4"
      [] f = "vid.avi"   -> "avi"
      [] f = "vid"       -> ""
      [] f = "{crf}.mp4" -> "mp4"

WithoutExtension(f) == IF f = "{crf}.mp4" THEN "{crf}" ELSE "vid"

ToAsciiLowercase(e) == IF e = "MP4" THEN "mp4" ELSE e

\* normalize_path (lib.rs 1096-1123) on a relative path: "." is dropped,
\* ".." pops the last component kept, if there is one.
RECURSIVE NormalizeOnto(_, _)
NormalizeOnto(ret, path) ==
    IF path = <<>> THEN ret
    ELSE LET c == Head(path) IN
         NormalizeOnto(
             (IF c = "." THEN ret
              ELSE IF c = ".."
              THEN (IF ret = <<>> THEN ret ELSE SubSeq(ret, 1, Len(ret) - 1))
              ELSE Append(ret, c)),
             Tail(path))

NormalizePath(path) == NormalizeOnto(<<>>, path)

\* Path::starts_with: component by component
StartsWith(path, base) ==
    Len(base) <= Len(path) /\ SubSeq(path, 1, Len(base)) = base

\* InputFile::trim_input_path (input_file.rs 42-61)
TrimInputPath(input_path, video_root) ==
    LET input == NormalizePath(input_path)
        root  == NormalizePath(video_root)
    IN  IF root = <<".">> THEN [ok |-> TRUE, path |-> input]
        ELSE IF ~StartsWith(input, root) THEN [ok |-> FALSE, path |-> <<>>]
        ELSE [ok |-> TRUE, path |-> SubSeq(input, Len(root) + 1, Len(input))]

\* A string is kept as the sequence of its pieces.  to_string_lossy of a
\* relative path: the components joined by "/".
RECURSIVE PathString(_)
PathString(path) ==
    IF path = <<>> THEN <<>>
    ELSE IF Len(path) = 1 THEN <<path[1]>>
    ELSE <<Head(path), "/">> \o PathString(Tail(path))

\* str::replace of the piece `from` by the string `to`
RECURSIVE Replace(_, _, _)
Replace(str, from, to) ==
    IF str = <<>> THEN <<>>
    ELSE (IF Head(str) = from THEN to ELSE <<Head(str)>>)
         \o Replace(Tail(str), from, to)

\* The naming formats of input_file.rs 97-101, and the preset and crf of
\* the model
Av1Format     == <<"{basename}", "-", "{preset}", "-crf", "{crf}">>
DefaultFormat == <<"{basename}", "-crf", "{crf}">>
PresetStr     == <<"slow">>
CrfStr        == <<"22">>

\* InputFile::fill_output_template (input_file.rs 63-77): the name below
\* the output directory and its extension
FillOutputTemplate(naming_format, basename, preset, crf, extension) ==
    [name |-> Replace(Replace(Replace(naming_format, "{basename}", basename),
                              "{preset}", preset),
                      "{crf}", crf),
     ext  |-> extension]

\* input_file.rs 82-90: mp4 keeps its extension, the others become mkv
OutputExtension(e) == IF ToAsciiLowercase(e) = "mp4" THEN "mp4" ELSE "mkv"

\* InputFile::get_output_path(None) (input_file.rs 79-114)
GetOutputPath(input_path, video_root, av1) ==
    LET file    == input_path[Len(input_path)]
        trimmed == TrimInputPath(input_path, video_root)
        rel     == trimmed.path
        stem    == SubSeq(rel, 1, Len(rel) - 1)
                       \o <<WithoutExtension(rel[Len(rel)])>>
    IN  IF ~trimmed.ok THEN [ok |-> FALSE, name |-> <<>>, ext |-> ""]
        ELSE [ok |-> TRUE] @@
             FillOutputTemplate(IF av1 THEN Av1Format ELSE DefaultFormat,
                                PathString(stem), PresetStr, CrfStr,
                                OutputExtension(Extension(file)))

PathInit ==
    /\ IdleRun
    /\ \E input \in InputPaths, root \in RootPaths, av1 \in BOOLEAN :
          call = [method |-> "output_path", input |-> input, root |-> root,
                  av1 |-> av1, called |-> FALSE,
                  result |-> [ok |-> FALSE, name |-> <<>>, ext |-> ""]]

GetOutputPathCall ==
    /\ call.method = "output_path"
    /\ ~call.called
    /\ call' = [call EXCEPT
                  !.called = TRUE,
                  !.result = GetOutputPath(call.input, call.root, call.av1)]
    /\ IdleUnchanged

PathNext == GetOutputPathCall

PathSpec == PathInit /\ [][PathNext]_vars

\* A second specification for eventualities: every task in the pool is
\* polled again when it can go on (FuturesUnordered polls every task that
\* is woken; sleeps and renames end), and every ffmpeg child exits.  Nothing
\* is assumed of discovery failing, of a probe printing no duration or of
\* the ffmpeg processes of other invocations.
FairSpec ==
    /\ Spec
    /\ WF_vars(StartAction)
    /\ \A j \in 1..MaxFiles :
        /\ WF_vars(\E dir_ok, spawn_ok \in BOOLEAN :
                     \E size \in {NoValue} \cup InSizes :
                        j \in Jobs /\ JobSpawn(j, dir_ok, size, spawn_ok))
        /\ WF_vars(\E status \in {"exit_ok", "exit_fail"} :
                     \E size \in OutSizes :
                        j \in Jobs /\ JobExit(j, status, size))
        /\ WF_vars(j \in Jobs /\ RenameDone(j))
        /\ WF_vars(\E size \in OutSizes : j \in Jobs /\ JobAfterRename(j, size))
    /\ \A r \in WaitRanks :
        /\ WF_vars(r \in DOMAIN wait /\ WaitStart(r))
        /\ WF_vars(r \in DOMAIN wait /\ WaitWakes(r))
        /\ WF_vars(r \in DOMAIN wait /\ WaitSettles(r))

\* ------------------------------------------------------ terms of the claims
\* L, the concurrency limit encode_videos works with.
Limit == GetJobs(cli, cores).val

StartedTasks == SeqToSet(start_log)
StartedJobs  == { j \in Jobs : JobTask(j) \in StartedTasks }

\* Has task t, once started, come to its end?
TaskDone(t) ==
    IF t.kind = "job" THEN job[t.id].pc = "done" ELSE wait[t.id].pc = "done"

\* The tasks that were started and have not finished.
RunningTasks == { t \in StartedTasks : ~TaskDone(t) }
RunningJobs  == { j \in StartedJobs : job[j].pc # "done" }
DoneJobs     == { j \in Jobs : job[j].pc = "done" }

\* How often task t occurs in the sequence q.
Occurrences(q, t) == Cardinality({ i \in 1..Len(q) : q[i] = t })

\* The jobs some record in the bag b is about.
JobsWithRecords(b) == { j \in Jobs : \E r \in BagToSet(b) : r.by = j }

\* ------------------------------------------------------------------- C1
\* C1: at every moment of every run, the number of tasks (encode jobs and
\* wait tasks together) that were started and have not finished is at most
\* the concurrency limit L.
C1_AtMostLimit ==
    /\ Cardinality(RunningTasks) <= Limit
    /\ Cardinality(tasks_started) <= Limit

\* The limit is reached with real jobs and wait tasks in the pool together,
\* while more tasks wait in the queue.
C1_Witness ==
    /\ main_pc = "loop"
    /\ Limit >= 2
    /\ Cardinality(RunningTasks) = Limit
    /\ \E t \in RunningTasks : t.kind = "job"
    /\ \E t \in RunningTasks : t.kind = "wait"
    /\ tasks_not_started # <<>>

\* ------------------------------------------------------------------- C2
\* C2: every discovered input is one job task, which is in the queue or was
\* started, never both and never twice; a job yields at most one outcome,
\* Ok or Err, and only after it was started; the finished-job counter is the
\* number of jobs that yielded their outcome; and when encode_videos returns
\* Ok every job was started once and has yielded exactly one outcome.
C2_ExactlyOnce ==
    /\ \A j \in Jobs :
        /\ Occurrences(tasks_not_started, JobTask(j))
             + Occurrences(start_log, JobTask(j)) = 1
        /\ Len(outcome[j]) <= 1
        /\ \A i \in 1..Len(outcome[j]) : outcome[j][i] \in {"EncodingDone", "Err"}
        /\ (outcome[j] # <<>>) => j \in StartedJobs
        /\ (outcome[j] # <<>>) <=> job[j].pc = "done"
    /\ finished_encode_count = Cardinality({ j \in Jobs : outcome[j] # <<>> })
    /\ run_result = "ok" =>
          /\ finished_encode_count = task_count
          /\ \A j \in Jobs : Len(outcome[j]) = 1 /\ j \in StartedJobs

\* A slow-start run of several jobs has returned; one job failed, one
\* succeeded, and wait tasks have finished beside them.
C2_Witness ==
    /\ run_result = "ok"
    /\ cli.slow_start
    /\ task_count >= 2
    /\ \E r \in DOMAIN wait : wait[r].pc = "done"
    /\ \E j \in Jobs : outcome[j] = <<"Err">>
    /\ \E j \in Jobs : outcome[j] = <<"EncodingDone">>

\* ------------------------------------------------------------------- C3
\* C3: jobs are started in discovery order: the jobs started so far are the
\* first ones of the discovered list, and they entered the pool in the order
\* of the list.  (Nothing is said of the order in which they finish.)
C3_DiscoveryOrder ==
    /\ \A j \in StartedJobs : \A i \in 1..j : i \in StartedJobs
    /\ \A a, b \in 1..Len(start_log) :
          (a < b /\ start_log[a].kind = "job" /\ start_log[b].kind = "job")
              => start_log[a].id < start_log[b].id

\* Two jobs were started in discovery order and the later one has finished
\* while the earlier one still runs its ffmpeg.
C3_Witness ==
    /\ main_pc = "loop"
    /\ \E i, j \in StartedJobs :
        /\ i < j
        /\ job[j].pc = "done"
        /\ job[i].pc = "running"

\* ------------------------------------------------------------------- C7
\* C7: without slow-start, with N jobs and limit L, the number of jobs
\* started so far is min(N, L + the number of jobs finished so far): min(L, N)
\* before any job finishes and one more for each job that finishes, until
\* none is left; so L jobs run whenever a job waits in the queue.
C7_FixedMode ==
    (~cli.slow_start /\ main_pc # "init" /\ GetJobs(cli, cores).ok) =>
        /\ Cardinality(StartedJobs)
             = Min(task_count, Limit + Cardinality(DoneJobs))
        /\ (DoneJobs = {}) => Len(start_log) = Min(Limit, task_count)
        /\ (tasks_not_started # <<>>) => Cardinality(RunningJobs) = Limit

\* A job has finished while another waited in the queue, and that one was
\* started in its place.
C7_Witness ==
    /\ ~cli.slow_start
    /\ main_pc = "loop"
    /\ DoneJobs # {}
    /\ Limit < task_count
    /\ Cardinality(StartedJobs) = Limit + Cardinality(DoneJobs)
    /\ Cardinality(RunningJobs) = Limit

\* ------------------------------------------------------------------- C9
\* C9: the channel is drained at most once, exactly when encode_videos
\* returns Ok; at that moment no task is queued, none is in the pool and
\* every started task has finished; before the drain the summary is empty
\* and the channel holds every record sent, after it the summary holds every
\* record sent by a job or by the scheduler, each as often as it was sent,
\* and the channel is empty.  (A send is part of the step of the task that
\* makes it: the channel is unbounded and no step waits for it.)
C9_DrainedOnce ==
    /\ drains <= 1
    /\ (drains = 1) <=> (run_result = "ok")
    /\ (drains = 0) => (summary = EmptyBag /\ failures = sent)
    /\ (drains = 1) =>
          /\ tasks_not_started = <<>>
          /\ tasks_started = {}
          /\ RunningTasks = {}
          /\ failures = EmptyBag
          /\ summary = sent

\* The run has returned with a summary of records of several jobs, sent
\* by a job itself and by the scheduler loop.
C9_Witness ==
    /\ drains = 1
    /\ BagCardinality(summary) >= 3
    /\ Cardinality(JobsWithRecords(summary)) >= 2
    /\ \E r \in BagToSet(summary) : r.msg = "encoding_error"
    /\ \E r \in BagToSet(summary) : r.msg = "output_size"

C8_OneRecordPerJob ==
    (run_result = "ok") =>
        BagCardinality(summary) = Cardinality(JobsWithRecords(sent))

\* C8, amended: when encode_videos has returned, the summary has one record
\* for every record sent, which is at least one for every job that produced
\* a warning or failure, and every job that ended with Err has a record
\* about its input.
C8_OneRecordPerWarning ==
    (run_result = "ok") =>
        /\ BagCardinality(summary) = BagCardinality(sent)
        /\ BagCardinality(summary) >= Cardinality(JobsWithRecords(sent))
        /\ \A j \in Jobs :
              (outcome[j] = <<"Err">>) =>
                  \E r \in BagToSet(summary) : r.by = j /\ r.path = "input"

\* The run has returned and one job has two records in the summary.
C8_Witness ==
    /\ run_result = "ok"
    /\ \E j \in Jobs :
          \E r1, r2 \in BagToSet(summary) :
              r1.by = j /\ r2.by = j /\ r1 # r2
    /\ BagCardinality(summary) > Cardinality(JobsWithRecords(sent))

\* ------------------------------------------------------------------- C5
\* C5 as stated, for the failure of the engine: a job whose ffmpeg exited
\* with a failure (the record "Encoding error" was sent for it) does not
\* stop the batch; the job comes to its own outcome and the run goes on.
C5_EngineFailureNeverStopsBatch ==
    \A j \in Jobs :
        (Record(j, "input", "encoding_error") \in BagToSet(sent)) =>
            ~(job[j].pc = "panicked" /\ run_result = "panic")

\* ------------------------------------------------------------------ C10
\* C10 as stated: the limit derived from the core count is at least 1, and
\* with --jobs 0 encode_videos ends by returning an error, with or without
\* --slow-start, before any task is started.
C10_ZeroJobsIsAnError ==
    /\ (cli.jobs = NoValue) => (GetJobs(cli, cores).ok /\ Limit >= 1)
    /\ (cli.jobs = 0 /\ main_pc = "done") =>
          (run_result = "err" /\ start_log = <<>> /\ tasks_started = {})

\* ------------------------------------------------------------------- C4
\* C4 as stated, for the runs in which nothing panics and the ffmpeg
\* processes of other invocations all exit in the end: once encode_videos
\* has started its tasks, it returns in the end and every job has its
\* outcome.
C4_EveryJobFinishes ==
    (<>[](ext = {}) /\ [](run_result # "panic")) =>
        ((main_pc = "loop") ~>
            (run_result = "ok" /\ \A j \in Jobs : Len(outcome[j]) = 1))

\* ---------------------------------------------------------------- outputs
\* The jobs that spawned ffmpeg and have ended.
SpawnedDoneJobs == { j \in Jobs : job[j].pc = "done" /\ job[j].spawned }

\* C11: when a job that spawned ffmpeg has ended, either its final output
\* exists and its partial file does not, or neither exists.
C11_FinalOrNothing ==
    \A j \in SpawnedDoneJobs :
        \/ job[j].end_final /\ ~job[j].end_partial
        \/ ~job[j].end_final /\ ~job[j].end_partial

\* The jobs whose ffmpeg exited successfully and that ended with success.
CommittedJobs ==
    { j \in DoneJobs : job[j].exit = "exit_ok"
                       /\ outcome[j] = <<"EncodingDone">> }

\* The other jobs that spawned ffmpeg on the output path of job j.
OtherEngines(j) ==
    { k \in Jobs \ {j} : job[k].output_path = job[j].output_path
                         /\ job[k].spawned }

\* C12 as stated: when a job whose ffmpeg exited successfully ends with
\* success, its final output exists and its partial file does not.
C12_CommittedOutputExists ==
    \A j \in CommittedJobs : job[j].end_final /\ ~job[j].end_partial

\* C12: when a job whose ffmpeg exited successfully ends with success, it has
\* renamed once, its final output exists unless its size validation removed
\* it, and its partial file does not exist unless another job spawned ffmpeg
\* on the same output path.
C12_CommittedUnlessRemoved ==
    \A j \in CommittedJobs :
        /\ job[j].renames = 1
        /\ job[j].end_final = ~job[j].removed
        /\ job[j].end_partial => OtherEngines(j) # {}

\* A job committed and its validation removed the output; another committed
\* and kept it.
C12_Witness ==
    /\ \E j \in CommittedJobs : job[j].removed /\ ~job[j].end_final
    /\ \E j \in CommittedJobs : job[j].end_final /\ ~job[j].end_partial

\* C13: ffmpeg writes only the partial path; while the jobs run a final
\* output comes into existence only by the rename of the partial file by a
\* job that saw its ffmpeg exit successfully and has not renamed before, and
\* no job renames otherwise or twice.
C13_CommitByOneRename ==
    [][ (main_pc = "loop") =>
          /\ \A p \in DOMAIN final_file :
                (final_file'[p] /\ ~final_file[p]) =>
                    \E j \in Jobs :
                        /\ job[j].output_path = p
                        /\ job[j].pc = "renaming"
                        /\ job[j].exit = "exit_ok"
                        /\ child[j] = "none"
                        /\ job[j].renames = 0 /\ job'[j].renames = 1
                        /\ partial_file[p] /\ ~partial_file'[p]
          /\ \A j \in Jobs :
                /\ job'[j].renames <= 1
                /\ (job'[j].renames # job[j].renames) =>
                       /\ job[j].exit = "exit_ok"
                       /\ job[j].spawned
                       /\ final_file'[job[j].output_path]
                       /\ partial_file[job[j].output_path]
                       /\ ~partial_file'[job[j].output_path]
      ]_vars

\* A job found no final output at its existence check, ffmpeg wrote the
\* partial file and exited, and the job's rename made the final output.
C13_Witness ==
    \E j \in Jobs :
        /\ job[j].checked /\ ~job[j].saw_final
        /\ job[j].renames = 1
        /\ job[j].pc = "renamed"
        /\ final_file[job[j].output_path]

\* C14: with overwrite disabled no two jobs have ffmpeg running against the
\* same output path at the same time.
C14_OneEnginePerPath ==
    ~cli.overwrite =>
        \A j, k \in Jobs :
            (j # k /\ job[j].output_path = job[k].output_path)
                => ~(child[j] = "running" /\ child[k] = "running")

\* The records job j has sent.
RecordsBy(j) == { r \in BagToSet(sent) : r.by = j }

\* How often job j has sent the message msg about path.
SentCount(j, path, msg) == CopiesIn(Record(j, path, msg), sent)

\* The jobs whose existence check found the final or the partial file.
RefusedJobs ==
    { j \in Jobs : job[j].checked
                   /\ (job[j].saw_final \/ job[j].saw_partial) }

\* C15: with overwrite disabled a job whose existence check finds the final
\* or the partial file spawns no ffmpeg, renames and removes nothing, sends
\* only already-exists warnings (one for each of the two files found) and
\* ends with success; with overwrite enabled no check is made, no
\* already-exists warning is sent, and a job that ends without having
\* spawned ffmpeg ends with an error.
C15_ExistingOutputRefused ==
    /\ \A j \in RefusedJobs :
          /\ ~cli.overwrite
          /\ job[j].pc = "done"
          /\ ~job[j].spawned /\ child[j] = "none" /\ job[j].exit = "none"
          /\ job[j].renames = 0
          /\ job[j].size_checks = 0 /\ ~job[j].removed
          /\ job[j].end_final = job[j].saw_final
          /\ job[j].end_partial = job[j].saw_partial
          /\ outcome[j] = <<"EncodingDone">>
          /\ SentCount(j, "output", "output_exists")
                 = (IF job[j].saw_final THEN 1 ELSE 0)
          /\ SentCount(j, "partial", "partial_exists")
                 = (IF job[j].saw_partial THEN 1 ELSE 0)
          /\ \A r \in RecordsBy(j) :
                 r.msg \in {"output_exists", "partial_exists"}
    /\ cli.overwrite =>
          \A j \in Jobs :
              /\ ~job[j].checked
              /\ SentCount(j, "output", "output_exists") = 0
              /\ SentCount(j, "partial", "partial_exists") = 0
              /\ (job[j].pc = "done" /\ ~job[j].spawned)
                     => outcome[j] = <<"Err">>

\* A job found only the partial file at its existence check and ended.
C15_Witness ==
    \E j \in RefusedJobs :
        /\ job[j].saw_partial /\ ~job[j].saw_final
        /\ job[j].pc = "done"

\* C16: with overwrite disabled a job that finds its final output existing
\* sends exactly one already-exists warning and writes nothing to the file
\* system, its log file included.
C16_NoWriteWhenOutputExists ==
    \A j \in RefusedJobs :
        job[j].saw_final =>
            /\ SentCount(j, "output", "output_exists")
                 + SentCount(j, "partial", "partial_exists") = 1
            /\ ~job[j].log_written
            /\ job[j].end_final = job[j].saw_final
            /\ job[j].end_partial = job[j].saw_partial

\* The jobs that learnt of a successful exit of their ffmpeg.
ExitedOkJobs == { j \in Jobs : job[j].exit = "exit_ok" }

\* C17: a job whose ffmpeg exited successfully ends with the conflict error,
\* without a rename and with the final output still there, when overwrite is
\* disabled and the final output existed at that moment; after every other
\* successful exit the job sends no conflict error and goes on to the rename
\* of the partial file to the final path: it is about to rename, has renamed
\* once, or its rename has failed.
C17_ConflictOrRename ==
    \A j \in ExitedOkJobs :
        IF ~cli.overwrite /\ job[j].exit_saw_final
        THEN /\ job[j].pc = "done"
             /\ outcome[j] = <<"Err">>
             /\ SentCount(j, "input", "conflict") = 1
             /\ job[j].renames = 0
             /\ job[j].size_checks = 0 /\ ~job[j].removed
             /\ job[j].end_final
        ELSE /\ SentCount(j, "input", "conflict") = 0
             /\ \/ job[j].pc = "renaming"
                \/ job[j].renames = 1
                \/ job[j].pc = "rename_failed"
                \/ SentCount(j, "input", "rename") = 1

\* A job found no output at its existence check, and the final output was
\* there when its ffmpeg had exited successfully.
C17_Witness ==
    \E j \in ExitedOkJobs :
        /\ ~cli.overwrite
        /\ job[j].checked /\ ~job[j].saw_final
        /\ job[j].exit_saw_final
        /\ job[j].pc = "done"

\* C18: after its ffmpeg has exited a job calls the size validation only on a
\* final output that exists; without a final output the validation is
\* skipped and adds no failure of its own.
C18_ValidationOnlyWhenOutputExists ==
    \A j \in Jobs :
        /\ (job[j].size_checks > 0) => (job[j].seen # Absent)
        /\ SentCount(j, "input", "output_size") = 0

\* C19: a job whose ffmpeg exited with a non-zero status ends with a failed
\* outcome.
C19_EngineFailureFailsJob ==
    \A j \in DoneJobs :
        (job[j].exit = "exit_fail") => (outcome[j] = <<"Err">>)

\* The messages of the ratio check of check_encoded_size.
RatioMessages ==
    {"deleting_too_large", "larger_than_expected", "much_smaller",
     "deleting_larger_than_original"}

\* The jobs whose size validation read the size of an existing output.
ValidatedJobs == { j \in Jobs : job[j].size_checks > 0 /\ job[j].seen # Absent }

\* C20: an output of MinOutputSize bytes or more is not removed for its size:
\* no deletion warning for a small file is sent, and it is removed only with
\* a deletion message of the ratio check; a smaller output is removed with
\* one warning about the input, and then the job ends with success without
\* a ratio check: no ratio message and no division.
C20_SizeBoundary ==
    \A j \in ValidatedJobs :
        IF job[j].seen >= MinOutputSize
        THEN /\ SentCount(j, "input", "deleting_small") = 0
             /\ job[j].removed =>
                    \/ SentCount(j, "input", "deleting_too_large") = 1
                    \/ SentCount(j, "input", "deleting_larger_than_original") = 1
             /\ (job[j].pc = "done" /\ ~job[j].removed) => job[j].end_final
        ELSE /\ job[j].removed
             /\ SentCount(j, "input", "deleting_small") = 1
             /\ \A r \in RecordsBy(j) : r.msg \notin RatioMessages
             /\ job[j].pc = "done"
             /\ ~job[j].end_final
             /\ outcome[j] = <<"EncodingDone">>

\* With an expected size given, one job's output of exactly MinOutputSize
\* bytes was validated and is still there, and another job's output of one
\* byte less was removed.
C20_Witness ==
    /\ cli.expected_size # NoValue
    /\ \E j \in ValidatedJobs :
          /\ job[j].seen = MinOutputSize
          /\ job[j].pc = "done" /\ job[j].end_final
    /\ \E j \in ValidatedJobs :
          /\ job[j].seen = MinOutputSize - 1
          /\ job[j].removed /\ ~job[j].end_final

\* ------------------------------------------------------------ the ratio check
\* How many records with message msg about its input job j sends in a step.
NewCount(j, msg) ==
    CopiesIn(Record(j, "input", msg), sent')
        - CopiesIn(Record(j, "input", msg), sent)

\* C21: when check_encoded_size reads an output of MinOutputSize bytes or
\* more for an input that is not empty, with ratio = size * 100 \div the
\* original size: without an expected size nothing is sent or removed; a
\* ratio above the expected size gives the larger-than-expected warning, or
\* with delete-too-large the deletion warning and the removal; a ratio below
\* a third of the expected size gives the much-smaller warning; otherwise
\* nothing is sent or removed.  The output is removed exactly when
\* delete-too-large is on and the ratio exceeds the expected size or 100.
C21_RatioPolicy ==
    [][ \A j \in Jobs :
          (/\ job'[j].size_checks = job[j].size_checks + 1
           /\ job'[j].seen >= MinOutputSize
           /\ job[j].orig_size > 0)
          =>
          LET ratio == (job'[j].seen * 100) \div job[j].orig_size
              E     == cli.expected_size
              del   == cli.delete_too_large
              p     == job[j].output_path
              msgs  == { m \in RatioMessages : NewCount(j, m) > 0 }
              gone  == job'[j].removed
          IN  /\ \A m \in RatioMessages : NewCount(j, m) <= 1
              /\ NewCount(j, "deleting_small") = 0
              /\ IF E = NoValue
                 THEN msgs = {} /\ ~gone
                 ELSE IF ratio > E
                 THEN IF del
                      THEN msgs = {"deleting_too_large"} /\ gone
                      ELSE msgs = {"larger_than_expected"} /\ ~gone
                 ELSE IF ratio < E \div 3
                 THEN msgs = {"much_smaller"} /\ ~gone
                 ELSE msgs = {} /\ ~gone
              /\ gone = (del /\ E # NoValue /\ (ratio > E \/ ratio > 100))
              /\ final_file[p]
              /\ final_file'[p] = ~gone
      ]_vars

\* With an expected size given, one output of MinOutputSize bytes or more
\* was found much smaller than expected.
C21_Witness ==
    /\ cli.expected_size # NoValue
    /\ \E j \in ValidatedJobs :
          /\ job[j].seen >= MinOutputSize
          /\ SentCount(j, "input", "much_smaller") = 1
          /\ job[j].end_final

\* ------------------------------------------------------- the original size
\* Where a job is between the spawn of ffmpeg and its end.
AfterSpawn == {"running", "renaming", "renamed", "rename_failed"}

\* How often msg occurs in the sequence msgs.
CountIn(msgs, msg) == Cardinality({ i \in 1..Len(msgs) : msgs[i] = msg })

WaitTasksCreated == DOMAIN wait

\* C23 as stated: with slow-start at most Limit - 1 wait tasks are created,
\* and without slow-start none.
C23_AtMostLimitMinusOne ==
    (main_pc # "init" /\ run_result \notin {"err", "panic"}) =>
        IF cli.slow_start
        THEN Cardinality(WaitTasksCreated) <= Limit - 1
        ELSE WaitTasksCreated = {}

\* C23: with slow-start exactly Limit wait tasks are created, with the ranks
\* 0 to Limit - 1, whatever the number of inputs, and without slow-start
\* none.
C23_LimitWaitTasks ==
    (main_pc # "init" /\ run_result \notin {"err", "panic"}) =>
        IF cli.slow_start
        THEN WaitTasksCreated = 0..(Limit - 1)
        ELSE WaitTasksCreated = {}

\* Slow-start with a limit of two and one input: two wait tasks.
C23_Witness ==
    /\ cli.slow_start
    /\ main_pc = "loop"
    /\ Limit = 2
    /\ task_count = 1
    /\ Cardinality(WaitTasksCreated) = 2

\* The places in start_log of the wait tasks and of the jobs.
WaitStarts == { i \in 1..Len(start_log) : start_log[i].kind = "wait" }
JobStarts  == { i \in 1..Len(start_log) : start_log[i].kind = "job" }

\* The tasks that have returned.
FinishedTasks == { t \in StartedTasks : TaskDone(t) }

\* C24: with slow-start every wait task is started, and is started before
\* every job; the jobs started are never more than the tasks that have
\* returned, so none is started before a wait task has returned.
C24_WaitTasksFirst ==
    (cli.slow_start /\ main_pc # "init" /\ run_result \notin {"err", "panic"}) =>
        /\ \A r \in WaitTasksCreated : WaitTask(r) \in StartedTasks
        /\ \A i \in WaitStarts : \A k \in JobStarts : i < k
        /\ Cardinality(JobStarts) <= Cardinality(FinishedTasks)
        /\ (JobStarts # {}) => \E r \in WaitTasksCreated : wait[r].pc = "done"

\* With slow-start and a limit of two, a job runs beside a wait task that
\* has not returned.
C24_Witness ==
    /\ cli.slow_start
    /\ Limit = 2
    /\ main_pc = "loop"
    /\ \E j \in StartedJobs : job[j].pc = "running"
    /\ \E r \in WaitTasksCreated : wait[r].pc # "done"

\* C25: a wait task that comes to the top of its loop while the completion
\* flag is set returns in that step, whatever ffmpeg processes run elsewhere,
\* and one that is at its second snapshot returns or goes to the top of the
\* loop; so once the flag is set every wait task returns and encode_videos
\* returns.
C25_FlagReleasesWaitTasks ==
    /\ [][ \A r \in DOMAIN wait :
             (finished /\ wait'[r] # wait[r]) =>
                 /\ (wait[r].pc \in {"start", "sleep"}) => (wait'[r].pc = "done")
                 /\ (wait[r].pc = "settle") => (wait'[r].pc \in {"done", "sleep"})
         ]_vars
    /\ finished ~> (/\ main_pc = "done"
                    /\ run_result = "ok"
                    /\ \A r \in DOMAIN wait : wait[r].pc = "done")

\* The run has ended after its jobs, and the wait task of the last rank has
\* returned although an ffmpeg process of another invocation runs.
C25_Witness ==
    /\ cli.slow_start
    /\ task_count >= 1
    /\ main_pc = "done" /\ run_result = "ok" /\ finished
    /\ ext # {}
    /\ wait[Limit - 1].pc = "done"

\* The ffmpeg children of this run that have not exited.
RunningChildren == { j \in Jobs : child[j] = "running" }

\* C26: with slow-start, a limit of Limit and a set of ffmpeg processes of
\* other invocations that does not change, the jobs in the pool are never
\* more than Limit less the number of those processes, or none; when those
\* processes are no more than Limit, they and the ffmpeg children of this run
\* are together no more than Limit.
C26_SlowStartTotal ==
    (cli.slow_start /\ main_pc # "init") =>
        /\ Cardinality(RunningJobs) <= Max(0, Limit - Cardinality(ext))
        /\ (Cardinality(ext) <= Limit) =>
               Cardinality(ext) + Cardinality(RunningChildren) <= Limit

\* With a limit of two and one ffmpeg process of another invocation, one job
\* has its ffmpeg running while a second input waits in the queue.
C26_Witness ==
    /\ cli.slow_start
    /\ Limit = 2
    /\ Cardinality(ext) = 1
    /\ Cardinality(RunningChildren) = 1
    /\ \E i \in 1..Len(tasks_not_started) : tasks_not_started[i].kind = "job"

\* -------------------------------------------------------------- discovery
\* get_video_paths has returned at least once
Walked == walk.walks > 0

\* The files of the tree, and the files under a directory of it
Files == tree.files

\* ------------------------------------------------------------------ C27
\* C27: the list get_video_paths returns is in natural sort order of the
\* paths over the whole tree: of two candidates, whatever the depth they sit
\* at, the one listed earlier does not compare greater than the later one.
C27_NaturalOrderOverTree ==
    Walked =>
        \A i, k \in 1..Len(walk.videos) :
            i < k => EntryCmp(walk.videos[i], walk.videos[k]) # "greater"

\* ------------------------------------------------------------------ C28
\* C28: two walks of the same unchanged tree with the same include, exclude
\* and limit settings return the identical ordered list, whatever order the
\* filesystem lists the entries of a directory in.
C28_WalkDeterministic == walk.walks >= 2 => walk.videos = walk.prev

\* ------------------------------------------------------------------ C29
\* The first n elements of a sequence, all of it when it is shorter
Take(seq, n) == SubSeq(seq, 1, Min(n, Len(seq)))

\* The list the same walk returns without --limit
Unlimited ==
    GetVideoPaths(tree, [cli EXCEPT !.limit = NoValue], walk.listing)

\* C29: with --limit k, get_video_paths returns the first min(k, total)
\* candidates of the list it returns without a limit, in the same order
\* (none for k = 0); encode_videos makes one job of each element of the
\* list, so never more than k jobs.
C29_LimitIsPrefix ==
    (Walked /\ cli.limit # NoValue) =>
        /\ walk.videos = Take(Unlimited, cli.limit)
        /\ Len(walk.videos) = Min(cli.limit, Len(Unlimited))
        /\ Len(walk.videos) <= cli.limit

\* A walk with --limit 1 has cut a list of two or more candidates
C29_Witness ==
    /\ Walked
    /\ cli.limit = 1
    /\ Len(Unlimited) >= 2
    /\ Len(walk.videos) = 1

\* ------------------------------------------------------------------ C30
\* The videos a walk has returned, as a set
Discovered == {walk.videos[i] : i \in 1..Len(walk.videos)}

\* C30: without --limit, a video file under the video root, at any depth,
\* is discovered exactly when some include entry matches it (or no include
\* entry is given) and no exclude entry matches it.
C30_IncludedNotExcluded ==
    (Walked /\ cli.limit = NoValue) =>
        \A f \in Files :
            f \in Discovered <=>
                /\ cli.include = {} \/ IsMatch(cli.include, f, tree)
                /\ ~IsMatch(cli.exclude, f, tree)

\* ------------------------------------------------------------------ C31
\* What the child of job j has written to its stdout so far
Written(j) == [i \in 1..pipe[j].written |-> i]

IsPrefix(s, t) == Len(s) <= Len(t) /\ SubSeq(t, 1, Len(s)) = s

\* C31: what a job has written to the standard output is, in order and
\* unaltered, a prefix of what its engine wrote to its stdout, and once the
\* job has observed the exit status and made its last read, before commit
\* and validation, it is all of it.
C31_StdoutForwardedWhole ==
    \A j \in Jobs :
        /\ IsPrefix(pipe[j].stdout, Written(j))
        /\ job[j].exit # "none" => pipe[j].stdout = Written(j)

\* ------------------------------------------------------------------ C32
\* C32: a job whose input is smaller than the configured minimum size never
\* spawns ffmpeg and ends with an error, which the scheduler sends as one
\* record for that input; an input of the minimum size or more is not
\* rejected for its size, and without a minimum none is.
C32_MinimumSize ==
    \A j \in Jobs :
        /\ (job[j].compared # NoValue /\ job[j].compared < cli.minimum_size)
              => /\ ~job[j].spawned /\ child[j] = "none"
                 /\ job[j].pc = "done"
                 /\ outcome[j] = <<"Err">>
                 /\ SentCount(j, "input", "too_small") = 1
        /\ (job[j].compared # NoValue /\ job[j].compared >= cli.minimum_size)
              => SentCount(j, "input", "too_small") = 0
        /\ cli.minimum_size = NoValue
              => SentCount(j, "input", "too_small") = 0

\* One job was rejected for its size, another, whose input has just the
\* minimum size, has spawned ffmpeg
C32_Witness ==
    \E j, k \in Jobs :
        /\ job[j].compared # NoValue /\ job[j].compared < cli.minimum_size
        /\ job[k].compared = cli.minimum_size /\ job[k].spawned

\* ------------------------------------------------------------------ C33
\* The tokens of the command line whose extra flags are looked at
Tokens == GetExtraFlags(call.extra_flag)

\* The tokens at the positions of the set keep from position i on, in order
RECURSIVE Select(_, _)
Select(i, keep) ==
    IF i > Len(Tokens) THEN <<>>
    ELSE (IF i \in keep THEN <<Tokens[i]>> ELSE <<>>) \o Select(i + 1, keep)

FollowsVf == { i \in 1..Len(Tokens) : i > 1 /\ Tokens[i - 1] = VfFlag }

IsNormal ==
    { i \in 1..Len(Tokens) :
        Tokens[i] # EmptyStr /\ Tokens[i] # VfFlag /\ i \notin FollowsVf }

\* C33: get_extra_vf_flags returns, in order, exactly the tokens that
\* immediately follow a -vf token, and get_extra_normal_flags returns, in
\* order, exactly the non-empty tokens that are neither -vf nor immediately
\* preceded by -vf.
C33_ExtraFlagsSplit ==
    /\ "vf" \in call.called => call.vf = Select(1, FollowsVf)
    /\ "normal" \in call.called => call.normal = Select(1, IsNormal)

\* ------------------------------------------------------------------ C34
\* C34: get_video_codec returns Copy when copy-streams is set, otherwise
\* H264 when reference or for-tv is set, otherwise Av1 when av1 is set,
\* otherwise H265, whatever the anime flags (and --x265) are.
C34_CodecChoice ==
    call.called =>
        LET f == call.flags IN
        /\ f.copy_streams => call.codec = "Copy"
        /\ (~f.copy_streams /\ (f.reference \/ f.for_tv))
              => call.codec = "H264"
        /\ (~f.copy_streams /\ ~f.reference /\ ~f.for_tv /\ f.av1)
              => call.codec = "Av1"
        /\ (~f.copy_streams /\ ~f.reference /\ ~f.for_tv /\ ~f.av1)
              => call.codec = "H265"

\* The codec was asked for with --reference, --av1 and an anime flag set
C34_Witness ==
    /\ call.called
    /\ ~call.flags.copy_streams /\ call.flags.reference /\ call.flags.av1
    /\ call.flags.anime
    /\ call.codec = "H264"

\* ------------------------------------------------------------------ C35
\* Where a relative path leads: how many levels above the current directory
\* it starts, and the components below that.
RECURSIVE ResolveOnto(_, _)
ResolveOnto(at, path) ==
    IF path = <<>> THEN at
    ELSE LET c == Head(path) IN
         ResolveOnto(
             (IF c = "." THEN at
              ELSE IF c = ".."
              THEN (IF at.down = <<>> THEN [at EXCEPT !.up = @ + 1]
                    ELSE [at EXCEPT !.down = SubSeq(@, 1, Len(@) - 1)])
              ELSE [at EXCEPT !.down = Append(@, c)]),
             Tail(path))

Resolve(path) == ResolveOnto([up |-> 0, down |-> <<>>], path)

\* The input of the call lies under its video root
UnderRoot ==
    /\ Resolve(call.input).up = Resolve(call.root).up
    /\ StartsWith(Resolve(call.input).down, Resolve(call.root).down)

\* The root-relative path of the input with its extension removed
RelativeStem ==
    LET input == Resolve(call.input).down
        rel   == SubSeq(input, Len(Resolve(call.root).down) + 1, Len(input))
    IN  PathString(SubSeq(rel, 1, Len(rel) - 1)
                       \o <<WithoutExtension(rel[Len(rel)])>>)

\* C35: for an input under the video root, get_output_path returns the
\* root-relative path without its extension filled into the naming
\* template, with extension mp4 when the input's extension is mp4 in any
\* letter case and mkv otherwise; for an input that is not under the video
\* root it returns an error.
C35_OutputPath ==
    call.called =>
        IF UnderRoot
        THEN /\ call.result.ok
             /\ call.result.name =
                    RelativeStem
                    \o (IF call.av1 THEN <<"-", "slow", "-crf", "22">>
                        ELSE <<"-crf", "22">>)
             /\ call.result.ext =
                    (IF Extension(call.input[Len(call.input)])
                            \in {"mp4", "MP4"}
                     THEN "mp4" ELSE "mkv")
        ELSE ~call.result.ok

\* ------------------------------------------------------------------ C36
\* C36: the completion flag is true only if every job has yielded its
\* outcome; once true it never becomes false; and the count of finished jobs
\* is the number of jobs that have yielded an outcome, however many wait
\* tasks have finished.
C36_FlagOnlyWhenAllJobsDone ==
    /\ [](/\ finished => \A j \in Jobs : job[j].pc = "done" /\ outcome[j] # <<>>
          /\ finished_encode_count
                 = Cardinality({ j \in Jobs : outcome[j] # <<>> })
          /\ finished_encode_count <= task_count)
    /\ [][finished => finished']_vars

\* Wait tasks have finished while a job was still running, and the flag was
\* set only when the last of several jobs had finished
C36_Witness ==
    /\ finished
    /\ task_count >= 2
    /\ finished_encode_count = task_count
    /\ Cardinality({ r \in DOMAIN wait : wait[r].pc = "done" }) >= 2

\* ------------------------------------------------------------------ C37
\* C37: a wait task of rank r under the limit J returns while the completion
\* flag is unset only from the second snapshot: the snapshot it holds has at
\* most J - 1 - r external processes, and the snapshot taken one sleep later
\* has no process that is missing from it.  J - 1 - r is not negative for
\* any wait task that was created.
WaitReturns(r) == wait[r].pc # "done" /\ wait'[r].pc = "done"

C37_ReturnOnlyWhenStable ==
    /\ [](\A r \in DOMAIN wait : Allowed(GetJobs(cli, cores).val, r) >= 0)
    /\ [][\A r \in DOMAIN wait :
            (~finished /\ WaitReturns(r))
                => /\ wait[r].pc = "settle"
                   /\ Cardinality(wait[r].running_ffmpegs)
                          <= Allowed(GetJobs(cli, cores).val, r)
                   /\ ext \subseteq wait[r].running_ffmpegs]_vars

\* Both wait tasks of a run with the limit 2 have returned, the flag unset,
\* while an external ffmpeg runs.
C37_Witness ==
    /\ ~finished
    /\ Cardinality({ r \in DOMAIN wait : wait[r].pc = "done" }) >= 2
    /\ ext # {}
    /\ task_count >= 1

\* ------------------------------------------------------------------ C38
\* C38 as stated, for the runs in which nothing panics: in slow-start mode,
\* if from some moment on the external ffmpeg processes are a set that does
\* not change and has at most J - 1 - r members, then the wait task of rank r
\* returns in the end, whatever its earlier snapshots held.
C38_WaitTaskReturnsOnceQuiet ==
    \A r \in WaitRanks :
        \A pids \in SUBSET Pids :
            (/\ <>[](/\ r \in DOMAIN wait
                     /\ ext = pids
                     /\ Cardinality(pids) <= Allowed(Limit, r))
             /\ [](run_result # "panic"))
                => <>(r \in DOMAIN wait /\ wait[r].pc = "done")

\* ------------------------------------------------------------------ C39
\* C39 as stated: the size validation of a job removes the final output only
\* when ffmpeg exited with success and the job's own rename put the file
\* there; a job whose ffmpeg exited with a non-zero status removes no final
\* output, with or without --overwrite.
C39_OnlyOwnCommitDeleted ==
    \A j \in Jobs :
        job[j].removed => (job[j].exit = "exit_ok" /\ job[j].renames = 1)

\* ------------------------------------------------------------------ C40
\* C40 as stated: whatever the size of the input (zero bytes included) and
\* of the output, a job that has come to its size validation has ended with
\* an outcome of its own, and the run was not ended by a panic.
C40_ValidationNeverFaults ==
    \A j \in Jobs :
        job[j].size_checks > 0 =>
            /\ job[j].pc = "done"
            /\ Len(outcome[j]) = 1
            /\ run_result # "panic"

====
